---- MODULE Spec2Model ----
(***************************************************************************)
(* Verification model of the legal-document RAG pipeline:                  *)
(*   - chunking/legal_chunker.py   (article segmenter, long-unit splitter, *)
(*                                  chunk assembler)                       *)
(*   - retrieval/hybrid_search.py  (dense + sparse search, RRF fusion)     *)
(*   - retrieval/reranker.py       (cross-encoder reranking)               *)
(*   - etl/revocation_filter.py    (revocation classifier)                 *)
(*   - chat/service.py, router.py  (chat agent and its endpoint)           *)
(*   - indexing/vector_store.py    (embedding generation, dense query)     *)
(*   - etl/pdf_converter.py, scripts/run_etl.py  (the ETL batch)           *)
(*                                                                         *)
(* Text is a sequence of lexical symbols; an offset is an index into that  *)
(* sequence (0-based, as in the Python source).                            *)
(*   "NL"  a newline            "SP"  a blank                              *)
(*   "W"   a plain word         "LW"  a long plain sentence                *)
(*   "A1", "A2"  the article labels "Art. 1" and "Art. 2"                  *)
(*   "H"   a markdown heading decoration ("#")                             *)
(*   "P"   a paragraph marker ("§ 1", "Parágrafo único", "I -")            *)
(*   "CONT" the continuation marker "[...continuação...]"                  *)
(*   "T1", "T2"  the heading labels "TÍTULO I", "TÍTULO II"                *)
(*   "C1", "C2"  "CAPÍTULO I", "CAPÍTULO II";  "S1"  "SEÇÃO I"             *)
(*   "DASH" a heading separator ("-", "–" or ":")                          *)
(***************************************************************************)
EXTENDS Integers, Sequences, FiniteSets, TLC

VARIABLES
    \* ---- chunker (legal_chunker.py) ----
    markdown_text,   \* the document handed to chunk_document
    max_tokens,      \* the token budget of the call
    cphase,          \* "input" | "chunked" | "split"
    articles,        \* chunk_document's local `articles` (the blocks)
    all_chunks,      \* chunk_document's result
    article_text,    \* the article handed to split_long_chunk
    units,           \* split_long_chunk's result
    \* ---- hybrid retrieval (hybrid_search.py) ----
    top_k,           \* search width of the call
    weights,         \* <<dense_weight, sparse_weight>>, in tenths
    filter_revoked,  \* the filter_revoked argument
    dense_ranking,   \* corpus indices the vector index returns, best first
    bm25_scores,     \* bm25.get_scores(query): a score per corpus chunk
    rphase,          \* "input" | "done"
    hybrid_results,  \* search_hybrid's result
    sparse_hits,     \* search_sparse's result
    \* ---- reranker (reranker.py) ----
    candidates,      \* the candidate list handed to rerank
    model_scores,    \* model.predict(pairs): a score per candidate
    rerank_top_k,    \* the top_k argument
    score_threshold, \* the score_threshold argument: <<>> (None) or <<score>>
    kphase,          \* "input" | "returned" | "raised"
    reranked,        \* rerank's return value
    \* ---- revocation classifier (revocation_filter.py) ----
    filepath,        \* the file path, a sequence of characters
    doc_text,        \* the document text, a sequence of words
    vphase,          \* "input" | "done"
    info             \* the RevocationInfo returned

VARIABLES
    \* ---- chat agent (chat/service.py, chat/router.py) ----
    decision_text,   \* the decision LLM's reply, a sequence of lexical tokens
    chat_top_k,      \* run_chat's top_k argument
    retrieval_fails, \* whether the retrieval of this request fails
    chat_pc,         \* position in run_chat: "start" | "search" | "rerank" |
                     \* "answer" | "returned" | "raised"
    calls,           \* the collaborators invoked so far, in order (a call
                     \* that raised is followed by "exception")
    needs_search,    \* run_chat's local needs_search
    search_query,    \* run_chat's local search_query
    direct_response, \* run_chat's local direct_response ("None" for None)
    chat_candidates, \* run_chat's local candidates
    top_results,     \* run_chat's local top_results
    chat_response,   \* the ChatResponse returned (NoResponse before)
    http_status      \* the status chat_endpoint answers with (0 before)

VARIABLES
    \* ---- embeddings and dense query (indexing/vector_store.py) ----
    texts,           \* generate_embeddings' argument
    epc,             \* position in generate_embeddings: "off" | "batch" |
                     \* "items" | "placeholder" | "returned" | "raised"
    batch_start,     \* the loop variable i (start of the current batch)
    item,            \* the loop variable j (item of the failed batch)
    all_embeddings,  \* generate_embeddings' local all_embeddings
    requests,        \* the requests sent to the external services, in order
    qpc,             \* position in query_dense: "off" | "collection" |
                     \* "embedding" | "query" | "returned" | "raised"
    query_results    \* what search_dense returns (NoResults before)

VARIABLES
    \* ---- ETL batch (etl/pdf_converter.py, scripts/run_etl.py) ----
    pdfs,            \* the PDFs discovered: for each, whether its conversion
                     \* and its segmentation succeed
    etl_pc,          \* "off" | "convert" | "chunk" | "done" | "aborted"
    etl_index,       \* index of the next document of the running loop
    etl_results,     \* run_etl's local results (documents converted)
    etl_errors,      \* run_etl's local errors (documents reported)
    saved            \* the documents whose chunks were saved

VARIABLES
    \* ---- hierarchy extractor (legal_chunker.py) ----
    hier_text,       \* the document handed to extract_hierarchy
    up_to_pos,       \* the offset handed to extract_hierarchy
    hphase,          \* "input" | "done"
    hierarchy        \* extract_hierarchy's result

VARIABLES
    \* ---- engine singleton (chat/service.py, hybrid_search.py) ----
    engines,         \* the HybridSearchEngine objects created so far
    _search_engine,  \* the module global: 0 (None) or an index into engines
    caller_pc,       \* per caller: its position in get_search_engine and in
                     \* the search it runs on the engine it received
    caller_engine    \* per caller: the engine it constructs or received

VARIABLES
    \* ---- chunk persistence (legal_chunker.py) ----
    given_chunks,    \* the chunk list handed to save_chunks
    jsonl,           \* the characters of the file save_chunks writes
    ppc,             \* "off" | "saving" | "saved" | "loaded"
    loaded_chunks    \* load_chunks' result

VARIABLES
    \* ---- id assignment (indexing/vector_store.py) ----
    indexed_chunks,  \* the chunk list handed to index_chunks
    ids,             \* the ids index_chunks hands to the vector store
    collection,      \* the vector store: the records it holds, by id
    iphase           \* "input" | "prepared" | "done" | "raised"

chunkerVars == <<markdown_text, max_tokens, cphase, articles, all_chunks,
                 article_text, units>>

retrievalVars == <<top_k, weights, filter_revoked, dense_ranking, bm25_scores,
                   rphase, hybrid_results, sparse_hits>>

rerankVars == <<candidates, model_scores, rerank_top_k, score_threshold,
                kphase, reranked>>

revocationVars == <<filepath, doc_text, vphase, info>>

chatVars == <<decision_text, chat_top_k, retrieval_fails, chat_pc, calls,
              needs_search, search_query, direct_response, chat_candidates,
              top_results, chat_response, http_status>>

embedVars == <<texts, epc, batch_start, item, all_embeddings, requests, qpc,
               query_results>>

etlVars == <<pdfs, etl_pc, etl_index, etl_results, etl_errors, saved>>

hierVars == <<hier_text, up_to_pos, hphase, hierarchy>>

pipelineVars == <<chunkerVars, retrievalVars, rerankVars, revocationVars>>

engineVars == <<engines, _search_engine, caller_pc, caller_engine>>

persistVars == <<given_chunks, jsonl, ppc, loaded_chunks>>

indexVars == <<indexed_chunks, ids, collection, iphase>>

auxVars == <<engineVars, persistVars, indexVars>>

serviceVars == <<chatVars, embedVars, etlVars, hierVars, auxVars>>

vars == <<pipelineVars, serviceVars>>

----------------------------------------------------------------------------
(* Each component is exercised by its own specification; the other
   components then rest in these states. *)

NoChunks == <<>>

NoInfo == [is_revoked |-> FALSE, revoked_by_filename |-> FALSE,
           revocation_markers |-> <<>>, status |-> ""]

ChunkerIdle ==
    /\ cphase = "input"
    /\ articles = <<>>
    /\ all_chunks = NoChunks
    /\ article_text = <<>>
    /\ units = NoChunks

ChunkerOff ==
    /\ markdown_text = <<>>
    /\ max_tokens = 0
    /\ ChunkerIdle

RetrievalOff ==
    /\ top_k = 0
    /\ weights = <<0, 0>>
    /\ filter_revoked = FALSE
    /\ dense_ranking = <<>>
    /\ bm25_scores = <<>>
    /\ rphase = "input"
    /\ hybrid_results = <<>>
    /\ sparse_hits = <<>>

RerankOff ==
    /\ candidates = <<>>
    /\ model_scores = <<>>
    /\ rerank_top_k = 0
    /\ score_threshold = <<>>
    /\ kphase = "input"
    /\ reranked = <<>>

RevocationOff ==
    /\ filepath = <<>>
    /\ doc_text = <<>>
    /\ vphase = "input"
    /\ info = NoInfo

NoResponse == [answer |-> "", sources |-> <<>>, used_search |-> FALSE]

ChatIdle ==
    /\ decision_text = <<>>
    /\ calls = <<>>
    /\ needs_search = TRUE
    /\ search_query = ""
    /\ direct_response = "None"
    /\ chat_candidates = <<>>
    /\ top_results = <<>>
    /\ chat_response = NoResponse
    /\ http_status = 0

ChatOff ==
    /\ chat_top_k = 0
    /\ retrieval_fails = FALSE
    /\ chat_pc = "start"
    /\ ChatIdle

NoResults == [query_embedding |-> <<>>, results |-> <<>>]

EmbeddingIdle ==
    /\ batch_start = 0
    /\ item = 0
    /\ all_embeddings = <<>>
    /\ requests = <<>>
    /\ query_results = NoResults

EmbeddingOff ==
    /\ texts = <<>>
    /\ epc = "off"
    /\ qpc = "off"
    /\ EmbeddingIdle

EtlIdle ==
    /\ etl_index = 1
    /\ etl_results = <<>>
    /\ etl_errors = <<>>
    /\ saved = <<>>

EtlOff ==
    /\ pdfs = <<>>
    /\ etl_pc = "off"
    /\ EtlIdle

HierarchyOff ==
    /\ hier_text = <<>>
    /\ up_to_pos = 0
    /\ hphase = "input"
    /\ hierarchy = <<>>

PipelineOff == ChunkerOff /\ RetrievalOff /\ RerankOff /\ RevocationOff

EngineOff ==
    /\ engines = <<>>
    /\ _search_engine = 0
    /\ caller_pc = <<>>
    /\ caller_engine = <<>>

PersistOff ==
    /\ given_chunks = <<>>
    /\ jsonl = <<>>
    /\ ppc = "off"
    /\ loaded_chunks = <<>>

IndexOff ==
    /\ indexed_chunks = <<>>
    /\ ids = <<>>
    /\ collection = {}
    /\ iphase = "input"

AuxOff == EngineOff /\ PersistOff /\ IndexOff

ServicesOff == ChatOff /\ EmbeddingOff /\ EtlOff /\ HierarchyOff /\ AuxOff


----------------------------------------------------------------------------
(* Bounds of the chunker inputs *)

MaxLines == 5

\* the token budget of the calls (documents are scaled down with it)
TokenBudget == 5

Budgets == {TokenBudget}

LineShapes ==
    { <<"A1", "SP", "W">>,
      <<"A2", "SP", "W">>,
      <<"H", "SP", "A1", "SP", "W">>,
      <<"P", "SP", "W">>,
      <<"LW">>,
      <<>> }

----------------------------------------------------------------------------
(* Text helpers: Python str operations on symbol sequences *)

WS == {"SP", "NL"}

ArtSyms == {"A1", "A2"}

\* s[a:b] with 0-based offsets
Slice(s, a, b) == SubSeq(s, a + 1, b)

\* str.strip()
strip(s) ==
    LET keep == {i \in 1..Len(s) : s[i] \notin WS}
    IN  IF keep = {} THEN <<>>
        ELSE LET lo == CHOOSE i \in keep : \A j \in keep : i <= j
                 hi == CHOOSE i \in keep : \A j \in keep : j <= i
             IN  SubSeq(s, lo, hi)

\* first index >= p whose symbol is outside S (Len(s)+1 when none)
SkipSet(s, p, S) ==
    LET stop == {i \in p..Len(s) : s[i] \notin S}
    IN  IF stop = {} THEN Len(s) + 1
        ELSE CHOOSE i \in stop : \A j \in stop : i <= j

\* "\n".join(lines)
RECURSIVE JoinLines(_)
JoinLines(ls) ==
    IF Len(ls) = 0 THEN <<>>
    ELSE IF Len(ls) = 1 THEN ls[1]
    ELSE ls[1] \o <<"NL">> \o JoinLines(Tail(ls))

\* the concatenation of a sequence of sequences
RECURSIVE Flatten(_)
Flatten(ss) == IF ss = <<>> THEN <<>> ELSE Head(ss) \o Flatten(Tail(ss))

\* s.split("\n")
SplitLines(s) ==
    LET nls   == {i \in 1..Len(s) : s[i] = "NL"}
        cuts  == {0} \cup nls \cup {Len(s) + 1}
        n     == Cardinality(nls) + 1
        start == [k \in 1..n |->
                    CHOOSE c \in cuts : Cardinality({d \in cuts : d < c}) = k - 1]
        stop  == [k \in 1..n |->
                    CHOOSE c \in cuts : Cardinality({d \in cuts : d < c}) = k]
    IN  [k \in 1..n |-> SubSeq(s, start[k] + 1, stop[k] - 1)]

\* len(text): characters per symbol
CharLen(sym) ==
    CASE sym = "LW" -> 60
      [] sym = "W"  -> 5
      [] sym \in ArtSyms -> 7
      [] sym = "P"  -> 3
      [] sym = "CONT" -> 19
      [] OTHER -> 1

RECURSIVE len(_)
len(s) == IF s = <<>> THEN 0 ELSE CharLen(Head(s)) + len(Tail(s))

\* tokens of one symbol under the cl100k_base encoding
TokLen(sym) ==
    CASE sym \in WS  -> 0
      [] sym = "LW" -> 3
      [] OTHER -> 1

RECURSIVE SymTokens(_)
SymTokens(s) == IF s = <<>> THEN 0 ELSE TokLen(Head(s)) + SymTokens(Tail(s))

\* count_tokens: every word is its own token(s); blanks merge into the
\* following word; each whitespace run that holds a newline is one token.
count_tokens(s) ==
    LET lastNL == {i \in 1..Len(s) :
                     /\ s[i] = "NL"
                     /\ SkipSet(s, i + 1, {"SP"}) > Len(s)
                        \/ s[SkipSet(s, i + 1, {"SP"})] # "NL"}
    IN  SymTokens(s) + Cardinality(lastNL)

----------------------------------------------------------------------------
(* legal_chunker.py: article segmenter *)

\* ARTICLE_PATTERN matched at 1-based index p: line start, optional heading
\* decoration (1..6 "#" then whitespace), then the article label.
\* The result is the index just past the match (0 when there is no match).
ARTICLE_PATTERN_match(s, p) ==
    IF p > Len(s) \/ (p > 1 /\ s[p - 1] # "NL") THEN 0
    ELSE LET h == SkipSet(s, p, {"H"})
             q == IF h - p >= 1 /\ h - p <= 6 THEN SkipSet(s, h, WS) ELSE p
         IN  IF q <= Len(s) /\ s[q] \in ArtSyms
             THEN SkipSet(s, q + 1, WS)
             ELSE 0

\* ARTICLE_PATTERN.finditer: the 1-based starts of the non-overlapping
\* matches, scanning left to right from index p
RECURSIVE ARTICLE_PATTERN_finditer(_, _)
ARTICLE_PATTERN_finditer(s, p) ==
    IF p > Len(s) THEN <<>>
    ELSE IF ARTICLE_PATTERN_match(s, p) # 0
         THEN <<p>> \o ARTICLE_PATTERN_finditer(s, ARTICLE_PATTERN_match(s, p))
         ELSE ARTICLE_PATTERN_finditer(s, p + 1)

PREAMBLE_MIN_CHARS == 50

ArticleEndOfDocument(matches, i, n) == n

\* where block i ends (line 177): the next marker, or the end of the text
ArticleEnd(matches, i, n) ==
    IF i + 1 <= Len(matches) THEN matches[i + 1] - 1 ELSE n

\* split_into_articles: blocks [pos |-> 0-based offset, text |-> content]
split_into_articles(text) ==
    LET matches  == ARTICLE_PATTERN_finditer(text, 1)
        preamble == strip(Slice(text, 0, matches[1] - 1))
        pre      == IF preamble # <<>> /\ len(preamble) > PREAMBLE_MIN_CHARS
                    THEN <<[pos |-> 0, text |-> preamble]>>
                    ELSE <<>>
        block(i) == [pos  |-> matches[i] - 1,
                     text |-> strip(Slice(text, matches[i] - 1,
                                          ArticleEnd(matches, i, Len(text))))]
        arts     == [i \in 1..Len(matches) |-> block(i)]
    IN  IF matches = <<>>
        THEN <<[pos |-> 0, text |-> strip(text)]>>
        ELSE pre \o SelectSeq(arts, LAMBDA b : b.text # <<>>)

\* extract_article_id: the label at the start of the stripped text, "" when
\* the text does not start with one (a heading decoration is not skipped)
extract_article_id(text) ==
    LET t == strip(text)
    IN  IF t # <<>> /\ t[1] \in ArtSyms THEN t[1] ELSE ""

----------------------------------------------------------------------------
(* legal_chunker.py: long-unit splitter *)

\* ChunkMetadata defaults, with the article id chunk_document sets
ChunkMetadata(aid) ==
    [article_id |-> aid, chunk_index |-> 0, is_child_chunk |-> FALSE,
     parent_article |-> ""]

LegalChunk(content, metadata) == [content |-> content, metadata |-> metadata]

\* the 1-based index of the first newline that ends the caput: a newline
\* followed (after whitespace) by a paragraph marker, or by a second newline;
\* Len+1 when the caput is the whole text
caput_end(s) ==
    LET hits == {i \in 1..Len(s) :
                   /\ s[i] = "NL"
                   /\ i < Len(s)
                   /\ \/ s[i + 1] = "NL"
                      \/ /\ SkipSet(s, i + 1, WS) <= Len(s)
                         /\ s[SkipSet(s, i + 1, WS)] = "P"}
    IN  IF hits = {} THEN Len(s) + 1
        ELSE CHOOSE i \in hits : \A j \in hits : i <= j

Caput(s) == strip(SubSeq(s, 1, caput_end(s) - 1))

Rest(s) == strip(SubSeq(s, caput_end(s), Len(s)))

ContinuationContent(caput, lines) ==
    caput \o <<"NL", "NL", "CONT", "NL", "NL">> \o JoinLines(lines)

UnitMetadataIndexZero(metadata, chunk_idx) ==
    [article_id     |-> metadata.article_id,
     chunk_index    |-> 0,
     is_child_chunk |-> FALSE,
     parent_article |-> metadata.article_id]

\* metadata of a unit produced by the line walk (lines 256-265, 287-296)
UnitMetadata(metadata, chunk_idx) ==
    [article_id     |-> metadata.article_id,
     chunk_index    |-> chunk_idx,
     is_child_chunk |-> (chunk_idx > 0),
     parent_article |-> metadata.article_id]

DeferredLinesDropped(line) == <<>>

\* what the accumulator restarts with when a unit is closed (line 268)
DeferredLines(line) == <<line>>

FinalContentAlwaysPrefixed(text, caput, st) ==
    ContinuationContent(caput, st.current_lines)

\* content of the last unit (lines 278-282): the original text when no unit
\* boundary was crossed
FinalContent(text, caput, st) ==
    IF st.chunk_idx = 0 THEN text
    ELSE ContinuationContent(caput, st.current_lines)

LineWalkOneUnit(lines, i, caput, metadata, budget, st) ==
    [chunks         |-> st.chunks,
     current_lines  |-> st.current_lines \o SubSeq(lines, i, Len(lines)),
     current_tokens |-> st.current_tokens,
     chunk_idx      |-> st.chunk_idx]

\* the for loop of lines 247-273, from line i on; st is the loop state
\* [chunks, current_lines, current_tokens, chunk_idx]
RECURSIVE LineWalk(_, _, _, _, _, _)
LineWalk(lines, i, caput, metadata, budget, st) ==
    IF i > Len(lines) THEN st
    ELSE LET line        == lines[i]
             line_tokens == count_tokens(line)
         IN  IF st.current_tokens + line_tokens > budget
                /\ st.current_lines # <<>>
             THEN LineWalk(lines, i + 1, caput, metadata, budget,
                    [chunks |-> Append(st.chunks,
                        LegalChunk(ContinuationContent(caput, st.current_lines),
                                   UnitMetadata(metadata, st.chunk_idx))),
                     current_lines  |-> DeferredLines(line),
                     current_tokens |-> count_tokens(caput) + line_tokens,
                     chunk_idx      |-> st.chunk_idx + 1])
             ELSE LineWalk(lines, i + 1, caput, metadata, budget,
                    [chunks         |-> st.chunks,
                     current_lines  |-> Append(st.current_lines, line),
                     current_tokens |-> st.current_tokens + line_tokens,
                     chunk_idx      |-> st.chunk_idx])

split_long_chunk(text, metadata, budget) ==
    LET caput == Caput(text)
        rest  == Rest(text)
        lines == SplitLines(rest)
        st    == LineWalk(lines, 1, caput, metadata, budget,
                          [chunks |-> <<>>, current_lines |-> <<>>,
                           current_tokens |-> count_tokens(caput),
                           chunk_idx |-> 0])
        final == FinalContent(text, caput, st)
    IN  IF rest = <<>>
        THEN <<LegalChunk(text,
                 [metadata EXCEPT !.chunk_index = 0, !.is_child_chunk = FALSE])>>
        ELSE IF st.current_lines # <<>>
             THEN Append(st.chunks,
                         LegalChunk(final, UnitMetadata(metadata, st.chunk_idx)))
             ELSE st.chunks

----------------------------------------------------------------------------
(* legal_chunker.py: chunk assembler *)

\* the chunks chunk_document emits for one block (lines 337-363)
BlockChunks(block, budget) ==
    LET base_metadata == ChunkMetadata(extract_article_id(block.text))
    IN  IF count_tokens(block.text) > budget
        THEN split_long_chunk(block.text, base_metadata, budget)
        ELSE <<LegalChunk(block.text, base_metadata)>>

ExtendAllBackwards(blocks, budget) ==
    Flatten([i \in 1..Len(blocks) |->
               BlockChunks(blocks[Len(blocks) + 1 - i], budget)])

RECURSIVE ExtendAll(_, _)
ExtendAll(blocks, budget) ==
    IF blocks = <<>> THEN <<>>
    ELSE BlockChunks(Head(blocks), budget) \o ExtendAll(Tail(blocks), budget)

chunk_document(text, budget) == ExtendAll(split_into_articles(text), budget)

----------------------------------------------------------------------------
(* Chunker inputs and operations *)

LineSeqs == UNION {[1..n -> LineShapes] : n \in 0..MaxLines}

Documents == {JoinLines(ls) : ls \in LineSeqs}

ChunkerInit ==
    /\ markdown_text \in Documents
    /\ max_tokens \in Budgets
    /\ ChunkerIdle
    /\ RetrievalOff /\ RerankOff /\ RevocationOff /\ ServicesOff

\* chunk_document(markdown_text, ..., max_tokens)
ChunkDocument ==
    /\ cphase = "input"
    /\ cphase' = "chunked"
    /\ articles' = split_into_articles(markdown_text)
    /\ all_chunks' = chunk_document(markdown_text, max_tokens)
    /\ UNCHANGED <<markdown_text, max_tokens, article_text, units>>
    /\ UNCHANGED <<retrievalVars, rerankVars, revocationVars, serviceVars>>

\* split_long_chunk(article_text, base_metadata, max_tokens) on one block of
\* the document
SplitLongChunk ==
    /\ cphase = "input"
    /\ LET blocks == split_into_articles(markdown_text)
       IN  \E text \in {blocks[i].text : i \in 1..Len(blocks)} :
             /\ article_text' = text
             /\ units' = split_long_chunk(text,
                            ChunkMetadata(extract_article_id(text)), max_tokens)
    /\ cphase' = "split"
    /\ UNCHANGED <<markdown_text, max_tokens, articles, all_chunks>>
    /\ UNCHANGED <<retrievalVars, rerankVars, revocationVars, serviceVars>>

ChunkerNext == ChunkDocument \/ SplitLongChunk

SpecChunker == ChunkerInit /\ [][ChunkerNext]_vars

----------------------------------------------------------------------------
(* hybrid_search.py: the corpus and the two candidate searches *)

\* self.chunks: a mixed-status corpus.  "a0" and "a1" are two sub-chunks of
\* one long article: their contents differ but start with the same caput,
\* so their first 200 characters are equal.
Corpus ==
    << [content |-> "a0", status |-> "vigente"],
       [content |-> "a1", status |-> "vigente"],
       [content |-> "b",  status |-> "revogado"],
       [content |-> "c",  status |-> "vigente"] >>

WholeContent(content) == content

\* result.content[:200]
ContentKey(content) ==
    CASE content \in {"a0", "a1"} -> "a-caput"
      [] OTHER -> content

MaxTopK == 3

BM25Levels == {0, 1, 2}

\* <<dense_weight, sparse_weight>> in tenths: 0.7/0.3 (the defaults) and others
WeightPairs == {<<7, 3>>, <<3, 7>>, <<5, 5>>, <<0, 10>>}

SearchResult(content, status, score, source) ==
    [content |-> content, metadata |-> [status |-> status],
     score |-> score, source |-> source]

\* the rankings the vector index can return for a width and a where-filter:
\* at most `width` distinct chunks, each satisfying the status filter
DenseRankings(width, filtered) ==
    LET eligible == {i \in 1..Len(Corpus) :
                       ~filtered \/ Corpus[i].status = "vigente"}
    IN  UNION { {r \in [1..n -> eligible] :
                   \A i, j \in 1..n : i # j => r[i] # r[j]} : n \in 0..width }

\* search_dense: the index's ranking as SearchResults (the similarity score
\* is 1 - distance; the rank stands for it)
search_dense(ranking, width) ==
    [i \in 1..Len(ranking) |->
        SearchResult(Corpus[ranking[i]].content, Corpus[ranking[i]].status,
                     width - i, "dense")]

\* sorted(enumerate(scores), key=score, reverse=True): corpus indices by
\* descending score, equal scores in corpus order (the sort is stable)
RECURSIVE SortedIndices(_, _)
SortedIndices(scores, left) ==
    IF left = {} THEN <<>>
    ELSE LET best == CHOOSE i \in left :
                        \A j \in left : \/ scores[i] > scores[j]
                                        \/ scores[i] = scores[j] /\ i <= j
         IN  <<best>> \o SortedIndices(scores, left \ {best})

TakeAll(seq, n) == seq

Take(seq, n) == SubSeq(seq, 1, IF n < Len(seq) THEN n ELSE Len(seq))

\* search_sparse: the first `width` indices by score, those scoring > 0 kept
search_sparse(scores, width) ==
    LET scored_indices == Take(SortedIndices(scores, 1..Len(scores)), width)
        kept == SelectSeq(scored_indices, LAMBDA i : scores[i] > 0)
    IN  [n \in 1..Len(kept) |->
            SearchResult(Corpus[kept[n]].content, Corpus[kept[n]].status,
                         scores[kept[n]], "sparse")]

----------------------------------------------------------------------------
(* hybrid_search.py: Reciprocal Rank Fusion *)

RRF_K == 60

\* Fused scores are exact fractions: the integer s stands for
\* s / (10 * RRFScale), RRFScale being the product of the denominators
\* k + rank + 1 of all ranks a width of MaxTopK allows.
RECURSIVE DenominatorProduct(_)
DenominatorProduct(rank) ==
    IF rank < 0 THEN 1 ELSE (RRF_K + rank + 1) * DenominatorProduct(rank - 1)

RRFScale == DenominatorProduct(MaxTopK - 1)

\* weight * (1.0 / (k + rank + 1)), rank 0-based
rrf_score(weight, rank) == weight * (RRFScale \div (RRF_K + rank + 1))

KeepAllSparse(results, filtered) == results

\* lines 177-181: drop the revoked sparse results when filtering
FilterSparse(results, filtered) ==
    IF filtered
    THEN SelectSeq(results, LAMBDA r : r.metadata.status # "revogado")
    ELSE results

\* one pass of the loops of lines 187-208: content_map is an insertion-
\* ordered sequence of entries [key, result, rrf_score]
RECURSIVE Accumulate(_, _, _, _)
Accumulate(content_map, results, weight, rank) ==
    IF rank >= Len(results) THEN content_map
    ELSE LET result == results[rank + 1]
             key    == ContentKey(result.content)
             term   == rrf_score(weight, rank)
             at     == {n \in 1..Len(content_map) : content_map[n].key = key}
         IN  IF at = {}
             THEN Accumulate(
                    Append(content_map,
                           [key |-> key, result |-> result, rrf_score |-> term]),
                    results, weight, rank + 1)
             ELSE Accumulate(
                    [n \in 1..Len(content_map) |->
                        IF n \in at
                        THEN [content_map[n] EXCEPT !.rrf_score = @ + term]
                        ELSE content_map[n]],
                    results, weight, rank + 1)

InsertionOrder(entries) == entries

\* sorted(content_map.values(), key=rrf_score, reverse=True): descending,
\* equal scores keep their insertion order
RECURSIVE SortByRRF(_)
SortByRRF(entries) ==
    IF entries = <<>> THEN <<>>
    ELSE LET idx  == 1..Len(entries)
             best == CHOOSE i \in idx :
                        \A j \in idx :
                            \/ entries[i].rrf_score > entries[j].rrf_score
                            \/ /\ entries[i].rrf_score = entries[j].rrf_score
                               /\ i <= j
         IN  <<entries[best]>>
             \o SortByRRF(SubSeq(entries, 1, best - 1)
                          \o SubSeq(entries, best + 1, Len(entries)))

search_hybrid_sparse_first(ranking, scores, width, w, filtered) ==
    LET dense_results  == search_dense(ranking, width)
        sparse_results == FilterSparse(search_sparse(scores, width), filtered)
        content_map    == Accumulate(Accumulate(<<>>, sparse_results, w[2], 0),
                                     dense_results, w[1], 0)
        sorted_results == Take(SortByRRF(content_map), width)
    IN  [n \in 1..Len(sorted_results) |->
            SearchResult(sorted_results[n].result.content,
                         sorted_results[n].result.metadata.status,
                         sorted_results[n].rrf_score, "hybrid")]

search_hybrid(ranking, scores, width, w, filtered) ==
    LET dense_results  == search_dense(ranking, width)
        sparse_results == FilterSparse(search_sparse(scores, width), filtered)
        content_map    == Accumulate(Accumulate(<<>>, dense_results, w[1], 0),
                                     sparse_results, w[2], 0)
        sorted_results == Take(SortByRRF(content_map), width)
    IN  [n \in 1..Len(sorted_results) |->
            SearchResult(sorted_results[n].result.content,
                         sorted_results[n].result.metadata.status,
                         sorted_results[n].rrf_score, "hybrid")]

----------------------------------------------------------------------------
(* Retrieval inputs and operations *)

RetrievalInit ==
    /\ top_k \in 1..MaxTopK
    /\ weights \in WeightPairs
    /\ filter_revoked \in BOOLEAN
    /\ dense_ranking \in DenseRankings(top_k, filter_revoked)
    /\ bm25_scores \in [1..Len(Corpus) -> BM25Levels]
    /\ rphase = "input"
    /\ hybrid_results = <<>>
    /\ sparse_hits = <<>>
    /\ ChunkerOff /\ RerankOff /\ RevocationOff /\ ServicesOff

\* engine.search_hybrid(query, top_k, dense_weight, sparse_weight,
\* filter_revoked)
SearchHybrid ==
    /\ rphase = "input"
    /\ rphase' = "done"
    /\ hybrid_results' = search_hybrid(dense_ranking, bm25_scores, top_k,
                                       weights, filter_revoked)
    /\ UNCHANGED <<top_k, weights, filter_revoked, dense_ranking, bm25_scores,
                   sparse_hits>>
    /\ UNCHANGED <<chunkerVars, rerankVars, revocationVars, serviceVars>>

RetrievalNext == SearchHybrid

SpecRetrieval == RetrievalInit /\ [][RetrievalNext]_vars

\* bm25.get_scores(query_tokens): BM25Okapi gives a term that occurs in more
\* than half of the corpus a floor IDF of epsilon * average_idf, which is
\* negative when the average is, so a score can be below 0
SignedBM25Levels == {-1, 0, 1, 2}

SparseInit ==
    /\ top_k \in 1..MaxTopK
    /\ bm25_scores \in [1..Len(Corpus) -> SignedBM25Levels]
    /\ weights = <<0, 0>>
    /\ filter_revoked = FALSE
    /\ dense_ranking = <<>>
    /\ rphase = "input"
    /\ hybrid_results = <<>>
    /\ sparse_hits = <<>>
    /\ ChunkerOff /\ RerankOff /\ RevocationOff /\ ServicesOff

\* engine.search_sparse(query, top_k)
SearchSparse ==
    /\ rphase = "input"
    /\ rphase' = "done"
    /\ sparse_hits' = search_sparse(bm25_scores, top_k)
    /\ UNCHANGED <<top_k, weights, filter_revoked, dense_ranking, bm25_scores,
                   hybrid_results>>
    /\ UNCHANGED <<chunkerVars, rerankVars, revocationVars, serviceVars>>

SparseNext == SearchSparse

SpecSparse == SparseInit /\ [][SparseNext]_vars

----------------------------------------------------------------------------
(* chat/service.py: get_search_engine; hybrid_search.py: the engine's
   constructor.  Callers are threads of one process: each statement is a
   step, and the steps of different callers interleave. *)

MaxCallers == 2

Callers == 1..MaxCallers

\* chunk.content.lower().split(): corpus contents are single lower-case words
Tokenise(content) == <<content>>

\* a HybridSearchEngine whose __init__ has just been entered: no attribute set
NewEngine == [attrs |-> {}, chunks |-> <<>>, corpus_tokens |-> <<>>,
              bm25 |-> <<>>]

\* BM25Okapi(corpus): the index keeps the token list of every document
BM25Okapi(corpus) == [d \in 1..Len(corpus) |-> corpus[d]]

ConstructorStarted(e) == TRUE

\* HybridSearchEngine() has returned: __init__ ran to its end
ConstructorReturned(e) ==
    engines[e].attrs = {"chunks", "corpus_tokens", "bm25"}

SearchOperations == {"search_sparse", "search_dense", "search_hybrid"}

EngineInit ==
    /\ engines = <<>>
    /\ _search_engine = 0
    /\ caller_pc = [c \in Callers |-> "call"]
    /\ caller_engine = [c \in Callers |-> 0]
    /\ PipelineOff /\ ChatOff /\ EmbeddingOff /\ EtlOff /\ HierarchyOff
    /\ PersistOff /\ IndexOff

\* line 40: if _search_engine is None
CheckGlobal(c) ==
    /\ caller_pc[c] = "call"
    /\ IF _search_engine = 0
       THEN /\ engines' = Append(engines, NewEngine)
            /\ caller_engine' = [caller_engine EXCEPT ![c] = Len(engines) + 1]
            /\ caller_pc' = [caller_pc EXCEPT ![c] = "constructing"]
       ELSE /\ caller_pc' = [caller_pc EXCEPT ![c] = "return"]
            /\ UNCHANGED <<engines, caller_engine>>
    /\ UNCHANGED _search_engine
    /\ UNCHANGED <<pipelineVars, chatVars, embedVars, etlVars, hierVars>>
    /\ UNCHANGED <<persistVars, indexVars>>

\* __init__ lines 46-49: chunks = load_all_chunks(); self.chunks = chunks
LoadAllChunks(c) ==
    /\ caller_pc[c] = "constructing"
    /\ "chunks" \notin engines[caller_engine[c]].attrs
    /\ engines' = [engines EXCEPT ![caller_engine[c]] =
                      [@ EXCEPT !.attrs = @ \cup {"chunks"},
                                !.chunks = Corpus]]
    /\ UNCHANGED <<_search_engine, caller_pc, caller_engine>>
    /\ UNCHANGED <<pipelineVars, chatVars, embedVars, etlVars, hierVars>>
    /\ UNCHANGED <<persistVars, indexVars>>

\* _build_bm25_index lines 55-57: self.corpus_tokens = [...]
TokeniseCorpus(c) ==
    /\ caller_pc[c] = "constructing"
    /\ LET e == engines[caller_engine[c]]
       IN  /\ "chunks" \in e.attrs
           /\ "corpus_tokens" \notin e.attrs
           /\ engines' = [engines EXCEPT ![caller_engine[c]] =
                 [@ EXCEPT !.attrs = @ \cup {"corpus_tokens"},
                           !.corpus_tokens =
                               [d \in 1..Len(e.chunks) |->
                                   Tokenise(e.chunks[d].content)]]]
    /\ UNCHANGED <<_search_engine, caller_pc, caller_engine>>
    /\ UNCHANGED <<pipelineVars, chatVars, embedVars, etlVars, hierVars>>
    /\ UNCHANGED <<persistVars, indexVars>>

\* _build_bm25_index line 58: self.bm25 = BM25Okapi(self.corpus_tokens)
BuildBM25Index(c) ==
    /\ caller_pc[c] = "constructing"
    /\ LET e == engines[caller_engine[c]]
       IN  /\ "corpus_tokens" \in e.attrs
           /\ "bm25" \notin e.attrs
           /\ engines' = [engines EXCEPT ![caller_engine[c]] =
                 [@ EXCEPT !.attrs = @ \cup {"bm25"},
                           !.bm25 = BM25Okapi(e.corpus_tokens)]]
    /\ UNCHANGED <<_search_engine, caller_pc, caller_engine>>
    /\ UNCHANGED <<pipelineVars, chatVars, embedVars, etlVars, hierVars>>
    /\ UNCHANGED <<persistVars, indexVars>>

\* line 42: _search_engine = <the constructed engine>
AssignGlobal(c) ==
    /\ caller_pc[c] = "constructing"
    /\ ConstructorReturned(caller_engine[c])
    /\ _search_engine' = caller_engine[c]
    /\ caller_pc' = [caller_pc EXCEPT ![c] = "return"]
    /\ UNCHANGED <<engines, caller_engine>>
    /\ UNCHANGED <<pipelineVars, chatVars, embedVars, etlVars, hierVars>>
    /\ UNCHANGED <<persistVars, indexVars>>

\* line 44: return _search_engine (the global is read again)
ReturnGlobal(c) ==
    /\ caller_pc[c] = "return"
    /\ caller_engine' = [caller_engine EXCEPT ![c] = _search_engine]
    /\ caller_pc' = [caller_pc EXCEPT ![c] = "engine"]
    /\ UNCHANGED <<engines, _search_engine>>
    /\ UNCHANGED <<pipelineVars, chatVars, embedVars, etlVars, hierVars>>
    /\ UNCHANGED <<persistVars, indexVars>>

get_search_engine(c) ==
    \/ CheckGlobal(c)
    \/ LoadAllChunks(c)
    \/ TokeniseCorpus(c)
    \/ BuildBM25Index(c)
    \/ AssignGlobal(c)
    \/ ReturnGlobal(c)

\* engine.search_sparse / search_dense / search_hybrid on the engine the
\* caller received: they read self.bm25 and self.chunks and assign nothing
\* on self
EngineSearch(c) ==
    /\ caller_pc[c] = "engine"
    /\ \E op \in SearchOperations : caller_pc' = [caller_pc EXCEPT ![c] = op]
    /\ UNCHANGED <<engines, _search_engine, caller_engine>>
    /\ UNCHANGED <<pipelineVars, chatVars, embedVars, etlVars, hierVars>>
    /\ UNCHANGED <<persistVars, indexVars>>

EngineNext == \E c \in Callers : get_search_engine(c) \/ EngineSearch(c)

SpecEngine == EngineInit /\ [][EngineNext]_vars

----------------------------------------------------------------------------
(* legal_chunker.py: save_chunks and load_chunks.  Strings are sequences of
   characters: "n" and "r" are the letters, "NL" a line feed, "CR" a
   carriage return, "DQ" a double quote, "BSL" a backslash; the field names
   and the JSON literals are single symbols. *)

MaxStored == 2

StoredContents ==
    { <<>>, <<"n">>, <<"NL">>, <<"n", "NL", "n">>, <<"CR", "NL">>, <<"DQ">>,
      <<"BSL">>, <<"BSL", "n">>, <<"BSL", "DQ">>, <<"n", "BSL">> }

\* ChunkMetadata with all its fields, lines 59-69
StoredMetadata(hier, source, aid, index, child) ==
    [hierarchy |-> hier, source |-> source, category |-> <<"n">>,
     status |-> <<"r">>, article_id |-> aid, chunk_index |-> index,
     is_child_chunk |-> child, parent_article |-> aid]

StoredMetadatas ==
    { StoredMetadata(<<>>, <<"n">>, <<>>, 0, FALSE),
      StoredMetadata(<< <<"n">>, <<"n", "DQ">> >>, <<"n", "NL">>, <<"r">>,
                     2, TRUE),
      StoredMetadata(<< <<"NL">> >>, <<"BSL", "r">>, <<"n", "DQ", "n">>,
                     1, FALSE) }

StoredChunks ==
    { LegalChunk(c, StoredMetadata(<<>>, <<"n">>, <<>>, 0, FALSE)) :
        c \in StoredContents }
    \cup { LegalChunk(<<"n">>, m) : m \in StoredMetadatas }

NoEscape(ch) == <<ch>>

\* json.dump of a str with ensure_ascii=False: the quoted string, control
\* characters, quotes and backslashes escaped
EscapeChar(ch) ==
    CASE ch = "NL"  -> <<"BSL", "n">>
      [] ch = "CR"  -> <<"BSL", "r">>
      [] ch = "DQ"  -> <<"BSL", "DQ">>
      [] ch = "BSL" -> <<"BSL", "BSL">>
      [] OTHER      -> <<ch>>

dump_str(str) ==
    <<"DQ">> \o Flatten([i \in 1..Len(str) |-> EscapeChar(str[i])]) \o <<"DQ">>

dump_int(n) ==
    CASE n = 0 -> <<"0">> [] n = 1 -> <<"1">> [] n = 2 -> <<"2">>
      [] n = 3 -> <<"3">> [] OTHER -> <<"9">>

dump_bool(b) == IF b THEN <<"true">> ELSE <<"false">>

dump_list(strs) ==
    <<"[">>
    \o Flatten([i \in 1..Len(strs) |->
                  (IF i > 1 THEN <<",">> ELSE <<>>) \o dump_str(strs[i])])
    \o <<"]">>

Key(name) == <<"DQ", name, "DQ", ":">>

\* json.dump(chunk.to_dict(), f, ensure_ascii=False)
json_dump(chunk) ==
    LET m == chunk.metadata
    IN  <<"{">> \o Key("content") \o dump_str(chunk.content) \o <<",">>
        \o Key("metadata") \o <<"{">>
        \o Key("hierarchy") \o dump_list(m.hierarchy) \o <<",">>
        \o Key("source") \o dump_str(m.source) \o <<",">>
        \o Key("category") \o dump_str(m.category) \o <<",">>
        \o Key("status") \o dump_str(m.status) \o <<",">>
        \o Key("article_id") \o dump_str(m.article_id) \o <<",">>
        \o Key("chunk_index") \o dump_int(m.chunk_index) \o <<",">>
        \o Key("is_child_chunk") \o dump_bool(m.is_child_chunk) \o <<",">>
        \o Key("parent_article") \o dump_str(m.parent_article)
        \o <<"}", "}">>

\* save_chunks lines 384-387: one dumped record and "\n" per chunk
FileWritten(chunks) ==
    Flatten([i \in 1..Len(chunks) |-> json_dump(chunks[i]) \o <<"NL">>])

\* for line in f: the text is cut after every line break (a lone carriage
\* return counts as one under universal newlines)
FileLines(file) ==
    LET text  == [i \in 1..Len(file) |->
                    IF file[i] = "CR" THEN "NL" ELSE file[i]]
        lines == SplitLines(text)
    IN  IF lines[Len(lines)] = <<>> THEN SubSeq(lines, 1, Len(lines) - 1)
        ELSE lines

Failed == [ok |-> FALSE, value |-> <<>>, next |-> 0]

UnescapeChar(ch) ==
    CASE ch = "n" -> "NL" [] ch = "r" -> "CR" [] OTHER -> ch

\* the JSON scanner inside a string: up to the closing quote, an escape
\* taking two characters
RECURSIVE scan_string(_, _, _)
scan_string(s, p, acc) ==
    IF p > Len(s) THEN Failed
    ELSE IF s[p] = "DQ" THEN [ok |-> TRUE, value |-> acc, next |-> p + 1]
    ELSE IF s[p] = "BSL"
         THEN IF p + 1 > Len(s) THEN Failed
              ELSE scan_string(s, p + 2, Append(acc, UnescapeChar(s[p + 1])))
    ELSE scan_string(s, p + 1, Append(acc, s[p]))

load_str(s, p) ==
    IF p > Len(s) \/ p = 0 \/ s[p] # "DQ" THEN Failed
    ELSE scan_string(s, p + 1, <<>>)

\* a JSON array of strings, from the symbol after "["
RECURSIVE load_items(_, _, _)
load_items(s, p, acc) ==
    IF p > Len(s) \/ p = 0 THEN Failed
    ELSE IF s[p] = "]" THEN [ok |-> TRUE, value |-> acc, next |-> p + 1]
    ELSE LET q    == IF s[p] = "," THEN p + 1 ELSE p
             elem == load_str(s, q)
         IN  IF elem.ok THEN load_items(s, elem.next, Append(acc, elem.value))
             ELSE Failed

load_list(s, p) ==
    IF p > Len(s) \/ p = 0 \/ s[p] # "[" THEN Failed
    ELSE load_items(s, p + 1, <<>>)

load_int(s, p) ==
    IF p > Len(s) \/ p = 0 \/ s[p] \notin {"0", "1", "2", "3"} THEN Failed
    ELSE [ok |-> TRUE, next |-> p + 1,
          value |-> CASE s[p] = "0" -> 0 [] s[p] = "1" -> 1
                      [] s[p] = "2" -> 2 [] OTHER -> 3]

load_bool(s, p) ==
    IF p > Len(s) \/ p = 0 \/ s[p] \notin {"true", "false"} THEN Failed
    ELSE [ok |-> TRUE, next |-> p + 1, value |-> s[p] = "true"]

\* the position after `"name":` at p (after a leading "," or "{"), 0 when
\* the member is not there
AfterKey(s, p, lead, name) ==
    IF p = 0 \/ p + 4 > Len(s) THEN 0
    ELSE IF SubSeq(s, p, p + 4) = <<lead>> \o Key(name) THEN p + 5 ELSE 0

\* json.loads(line), data["content"] and ChunkMetadata(**data["metadata"])
load_record(s) ==
    LET content  == load_str(s, AfterKey(s, 1, "{", "content"))
        open     == AfterKey(s, content.next, ",", "metadata")
        hier     == load_list(s, AfterKey(s, open, "{", "hierarchy"))
        source   == load_str(s, AfterKey(s, hier.next, ",", "source"))
        category == load_str(s, AfterKey(s, source.next, ",", "category"))
        status   == load_str(s, AfterKey(s, category.next, ",", "status"))
        aid      == load_str(s, AfterKey(s, status.next, ",", "article_id"))
        index    == load_int(s, AfterKey(s, aid.next, ",", "chunk_index"))
        child    == load_bool(s, AfterKey(s, index.next, ",",
                                          "is_child_chunk"))
        parent   == load_str(s, AfterKey(s, child.next, ",",
                                         "parent_article"))
    IN  IF /\ parent.ok
           /\ SubSeq(s, parent.next, Len(s)) = <<"}", "}">>
        THEN [ok |-> TRUE, next |-> Len(s) + 1,
              value |-> << LegalChunk(content.value,
                  [hierarchy |-> hier.value, source |-> source.value,
                   category |-> category.value, status |-> status.value,
                   article_id |-> aid.value, chunk_index |-> index.value,
                   is_child_chunk |-> child.value,
                   parent_article |-> parent.value]) >>]
        ELSE Failed

PersistInit ==
    /\ given_chunks \in UNION { [1..n -> StoredChunks] : n \in 0..MaxStored }
    /\ jsonl = <<>>
    /\ ppc = "saving"
    /\ loaded_chunks = <<>>
    /\ PipelineOff /\ ChatOff /\ EmbeddingOff /\ EtlOff /\ HierarchyOff
    /\ EngineOff /\ IndexOff

\* save_chunks(chunks, output_name)
SaveChunks ==
    /\ ppc = "saving"
    /\ jsonl' = FileWritten(given_chunks)
    /\ ppc' = "saved"
    /\ UNCHANGED <<given_chunks, loaded_chunks>>
    /\ UNCHANGED <<pipelineVars, chatVars, embedVars, etlVars, hierVars>>
    /\ UNCHANGED <<engineVars, indexVars>>

\* load_chunks(jsonl_path): every line is parsed, json.loads raising on a
\* line that is no record
LoadChunks ==
    /\ ppc = "saved"
    /\ LET records == [i \in 1..Len(FileLines(jsonl)) |->
                          load_record(FileLines(jsonl)[i])]
       IN  IF \A i \in 1..Len(records) : records[i].ok
           THEN /\ loaded_chunks' = Flatten([i \in 1..Len(records) |->
                                               records[i].value])
                /\ ppc' = "loaded"
           ELSE /\ ppc' = "raised"
                /\ UNCHANGED loaded_chunks
    /\ UNCHANGED <<given_chunks, jsonl>>
    /\ UNCHANGED <<pipelineVars, chatVars, embedVars, etlVars, hierVars>>
    /\ UNCHANGED <<engineVars, indexVars>>

PersistNext == SaveChunks \/ LoadChunks

SpecPersist == PersistInit /\ [][PersistNext]_vars

----------------------------------------------------------------------------
(* indexing/vector_store.py: index_chunks.  Names are sequences of
   characters: "d" a letter, "SP" a space, "SL" a slash, "_", "-", ".", the
   digits, "Art" and "preamble" the words, "o" the ordinal mark. *)

MaxIndexed == 3

\* file names: two that differ before and not after the replacements, and
\* one that ends like an id
IndexedSources ==
    { <<"d", "SP", "1">>, <<"d", "_", "1">>,
      <<"d", "_", "1", "_", "_", "preamble", "_", "_", "0">> }

\* what extract_article_id returns: nothing for a preamble, or "Art", an
\* optional period, whitespace and a number with an optional ordinal mark
IndexedArticleIds ==
    { <<>>, <<"Art", ".", "SP", "1", "o">>, <<"Art", ".", "SP", "SP", "1">> }

IndexedChunkIndexes == {0, 1}

IndexedChunks ==
    [source : IndexedSources, article_id : IndexedArticleIds,
     chunk_index : IndexedChunkIndexes]

\* str(n)
Decimal(n) ==
    CASE n = 0 -> <<"0">> [] n = 1 -> <<"1">> [] n = 2 -> <<"2">>
      [] n = 3 -> <<"3">> [] n = 4 -> <<"4">> [] n = 5 -> <<"5">>
      [] OTHER -> <<"9">>

\* .replace(" ", "_").replace("/", "-")
ReplaceSpacesAndSlashes(str) ==
    [n \in 1..Len(str) |->
        CASE str[n] = "SP" -> "_" [] str[n] = "SL" -> "-" [] OTHER -> str[n]]

\* lines 139-143
ChunkId(chunk) ==
    ReplaceSpacesAndSlashes(
        chunk.source \o <<"_", "_">>
        \o (IF chunk.article_id = <<>> THEN <<"preamble">>
            ELSE chunk.article_id)
        \o <<"_", "_">> \o Decimal(chunk.chunk_index))

SameId(chunk_id, seen, i) == chunk_id

\* lines 146-147: a repeated id gets the position as suffix
UniqueId(chunk_id, seen, i) ==
    IF \E n \in 1..Len(seen) : seen[n] = chunk_id
    THEN chunk_id \o <<"_", "_">> \o Decimal(i)
    ELSE chunk_id

\* the loop of lines 138-149, from position i (0-based) on
RECURSIVE AssignIds(_, _, _)
AssignIds(chunks, i, seen) ==
    IF i >= Len(chunks) THEN seen
    ELSE AssignIds(chunks, i + 1,
                   Append(seen, UniqueId(ChunkId(chunks[i + 1]), seen, i)))

\* collection.upsert: a record replaces the record of the same id
RECURSIVE Upsert(_, _, _)
Upsert(records, idlist, n) ==
    IF n > Len(idlist) THEN records
    ELSE Upsert({r \in records : r.id # idlist[n]}
                   \cup {[id |-> idlist[n], document |-> n]},
                idlist, n + 1)

IndexInit ==
    /\ indexed_chunks \in
          UNION { [1..n -> IndexedChunks] : n \in 0..MaxIndexed }
    /\ ids = <<>>
    /\ collection = {}
    /\ iphase = "input"
    /\ PipelineOff /\ ChatOff /\ EmbeddingOff /\ EtlOff /\ HierarchyOff
    /\ EngineOff /\ PersistOff

\* index_chunks lines 134-162: the ids, documents and metadatas are prepared
PrepareIds ==
    /\ iphase = "input"
    /\ ids' = AssignIds(indexed_chunks, 0, <<>>)
    /\ iphase' = "prepared"
    /\ UNCHANGED <<indexed_chunks, collection>>
    /\ UNCHANGED <<pipelineVars, chatVars, embedVars, etlVars, hierVars>>
    /\ UNCHANGED <<engineVars, persistVars>>

\* lines 165-176: the embeddings are generated and the records upserted
UpsertChunks ==
    /\ iphase = "prepared"
    /\ collection' = Upsert(collection, ids, 1)
    /\ iphase' = "done"
    /\ UNCHANGED <<indexed_chunks, ids>>
    /\ UNCHANGED <<pipelineVars, chatVars, embedVars, etlVars, hierVars>>
    /\ UNCHANGED <<engineVars, persistVars>>

\* line 165: generate_embeddings raises; nothing is upserted
IndexEmbeddingsFail ==
    /\ iphase = "prepared"
    /\ iphase' = "raised"
    /\ UNCHANGED <<indexed_chunks, ids, collection>>
    /\ UNCHANGED <<pipelineVars, chatVars, embedVars, etlVars, hierVars>>
    /\ UNCHANGED <<engineVars, persistVars>>

IndexNext == PrepareIds \/ UpsertChunks \/ IndexEmbeddingsFail

SpecIndex == IndexInit /\ [][IndexNext]_vars

----------------------------------------------------------------------------
(* reranker.py *)

MaxCandidates == 3

MaxRerankK == 3

RerankLevels == {0, 1, 2}

Thresholds == {<<>>} \cup {<<t>> : t \in RerankLevels}

\* the candidate lists handed to rerank: fused results, best first
CandidateLists ==
    { [n \in 1..len_ |-> SearchResult(Corpus[n].content, Corpus[n].status,
                                      MaxCandidates - n, "hybrid")] :
        len_ \in 0..MaxCandidates }

\* lines 68-76: (score, result) pairs, each result re-tagged "reranked"
ScoredResults(cands, scores) ==
    [n \in 1..Len(cands) |->
        [score  |-> scores[n],
         result |-> SearchResult(cands[n].content, cands[n].metadata.status,
                                 scores[n], "reranked")]]

\* scored_results.sort(key=score, reverse=True): stable, descending
RECURSIVE SortByScore(_)
SortByScore(pairs) ==
    IF pairs = <<>> THEN <<>>
    ELSE LET idx  == 1..Len(pairs)
             best == CHOOSE i \in idx :
                        \A j \in idx : \/ pairs[i].score > pairs[j].score
                                       \/ /\ pairs[i].score = pairs[j].score
                                          /\ i <= j
         IN  <<pairs[best]>>
             \o SortByScore(SubSeq(pairs, 1, best - 1)
                            \o SubSeq(pairs, best + 1, Len(pairs)))

\* lines 82-85
ApplyThreshold(pairs, threshold) ==
    IF threshold = <<>> THEN pairs
    ELSE SelectSeq(pairs, LAMBDA p : p.score >= threshold[1])

\* whether pairs[i] is a valid Python index (negative indices count from
\* the end)
ValidIndex(pairs, i) == i < Len(pairs) /\ i >= 0 - Len(pairs)

Min(a, b) == IF a < b THEN a ELSE b

\* the two subscripts the log message of lines 90-93 evaluates:
\* scored_results[0] and scored_results[min(top_k-1, len(scored_results)-1)]
LogMessageRaises(pairs, k) ==
    \/ ~ValidIndex(pairs, 0)
    \/ ~ValidIndex(pairs, Min(k - 1, Len(pairs) - 1))

\* rerank: [raised |-> an IndexError left the call, final |-> return value]
rerank(cands, scores, k, threshold) ==
    IF cands = <<>> THEN [raised |-> FALSE, final |-> <<>>]
    ELSE LET scored_results ==
                 ApplyThreshold(SortByScore(ScoredResults(cands, scores)),
                                threshold)
             top == Take(scored_results, k)
         IN  IF LogMessageRaises(scored_results, k)
             THEN [raised |-> TRUE, final |-> <<>>]
             ELSE [raised |-> FALSE,
                   final  |-> [n \in 1..Len(top) |-> top[n].result]]

RerankInit ==
    /\ candidates \in CandidateLists
    /\ model_scores \in [1..Len(candidates) -> RerankLevels]
    /\ rerank_top_k \in 0..MaxRerankK
    /\ score_threshold \in Thresholds
    /\ kphase = "input"
    /\ reranked = <<>>
    /\ ChunkerOff /\ RetrievalOff /\ RevocationOff /\ ServicesOff

\* rerank(query, candidates, top_k, score_threshold) returns
RerankReturns ==
    /\ kphase = "input"
    /\ ~rerank(candidates, model_scores, rerank_top_k, score_threshold).raised
    /\ kphase' = "returned"
    /\ reranked' =
         rerank(candidates, model_scores, rerank_top_k, score_threshold).final
    /\ UNCHANGED <<candidates, model_scores, rerank_top_k, score_threshold>>
    /\ UNCHANGED <<chunkerVars, retrievalVars, revocationVars, serviceVars>>

\* rerank(query, candidates, top_k, score_threshold) raises IndexError
RerankRaises ==
    /\ kphase = "input"
    /\ rerank(candidates, model_scores, rerank_top_k, score_threshold).raised
    /\ kphase' = "raised"
    /\ UNCHANGED <<candidates, model_scores, rerank_top_k, score_threshold,
                   reranked>>
    /\ UNCHANGED <<chunkerVars, retrievalVars, revocationVars, serviceVars>>

RerankNext == RerankReturns \/ RerankRaises

SpecRerank == RerankInit /\ [][RerankNext]_vars

----------------------------------------------------------------------------
(* revocation_filter.py *)

MaxFragments == 4

MaxWords == 2

\* file names are built from these character runs
NameFragments ==
    { <<"R", "E", "V", "O", "G", "A", "D">>,
      <<"r", "e", "v", "o", "g", "a", "D">>,
      <<"A">>,
      <<"o">>,
      <<".">> }

FileNames ==
    {Flatten(fs) : fs \in UNION {[1..n -> NameFragments] : n \in 0..MaxFragments}}

Vocabulary == {"fica", "revogada", "norma"}

Texts == UNION {[1..n -> Vocabulary] : n \in 0..MaxWords}

\* case folding of re.IGNORECASE
Lower(c) ==
    CASE c = "R" -> "r" [] c = "E" -> "e" [] c = "V" -> "v" [] c = "O" -> "o"
      [] c = "G" -> "g" [] c = "A" -> "a" [] c = "D" -> "d"
      [] OTHER -> c

\* Path(filepath).stem for a path that is a bare file name: the name up to
\* its last dot, the whole name when that dot is its first or last character
\* or there is none
Stem(name) ==
    LET dots == {i \in 1..Len(name) : name[i] = "."}
        last == CHOOSE i \in dots : \A j \in dots : j <= i
    IN  IF dots = {} THEN name
        ELSE IF last > 1 /\ last < Len(name) THEN SubSeq(name, 1, last - 1)
        ELSE name

\* FILENAME_REVOKED_PATTERN.search(s): REVOGAD[OA], ignoring case
FILENAME_REVOKED_PATTERN_search(s) ==
    \E i \in 1..(Len(s) - 7) :
        /\ [j \in 1..7 |-> Lower(s[i + j - 1])]
              = <<"r", "e", "v", "o", "g", "a", "d">>
        /\ Lower(s[i + 7]) \in {"o", "a"}

check_filename_revocation(path) == FILENAME_REVOKED_PATTERN_search(Stem(path))

\* REVOCATION_PATTERNS over words: "revogad*" stands for REVOGAD[OA]
REVOCATION_PATTERNS ==
    << <<"revogad*">>,
       <<"revogad*", "pela", "resolucao">>,
       <<"revoga", "a", "resolucao">>,
       <<"fica", "revogad*">>,
       <<"considerar", "revogad*">>,
       <<"deixa", "de", "vigorar">>,
       <<"sem", "efeito">> >>

WordMatches(word, class) ==
    IF class = "revogad*" THEN word \in {"revogada", "revogado"}
    ELSE word = class

\* pattern.findall(text) from word i on: the non-overlapping matches, left
\* to right
RECURSIVE FindAll(_, _, _)
FindAll(pattern, text, i) ==
    IF i + Len(pattern) - 1 > Len(text) THEN <<>>
    ELSE IF \A j \in 1..Len(pattern) : WordMatches(text[i + j - 1], pattern[j])
         THEN <<SubSeq(text, i, i + Len(pattern) - 1)>>
              \o FindAll(pattern, text, i + Len(pattern))
         ELSE FindAll(pattern, text, i + 1)

check_content_revocation(text) ==
    Flatten([n \in 1..Len(REVOCATION_PATTERNS) |->
                FindAll(REVOCATION_PATTERNS[n], text, 1)])

VerdictFromMarkersToo(by_filename, markers) == by_filename \/ markers # <<>>

\* line 78: is_revoked = by_filename
Verdict(by_filename, markers) == by_filename

analyze_revocation(path, text) ==
    LET by_filename == check_filename_revocation(path)
        markers     == check_content_revocation(text)
        is_revoked  == Verdict(by_filename, markers)
    IN  [is_revoked          |-> is_revoked,
         revoked_by_filename |-> by_filename,
         revocation_markers  |-> markers,
         status              |-> IF is_revoked THEN "revogado" ELSE "vigente"]

RevocationInit ==
    /\ filepath \in FileNames
    /\ doc_text \in Texts
    /\ vphase = "input"
    /\ info = NoInfo
    /\ ChunkerOff /\ RetrievalOff /\ RerankOff /\ ServicesOff

\* analyze_revocation(filepath, text)
AnalyzeRevocation ==
    /\ vphase = "input"
    /\ vphase' = "done"
    /\ info' = analyze_revocation(filepath, doc_text)
    /\ UNCHANGED <<filepath, doc_text>>
    /\ UNCHANGED <<chunkerVars, retrievalVars, rerankVars, serviceVars>>

RevocationNext == AnalyzeRevocation

SpecRevocation == RevocationInit /\ [][RevocationNext]_vars

----------------------------------------------------------------------------
(* legal_chunker.py: hierarchy extractor *)

MaxHeadingLines == 4

TitleSyms == {"T1", "T2"}

ChapterSyms == {"C1", "C2"}

SectionSyms == {"S1"}

\* the lines of a document with headings: bare, decorated and labelled
\* headings, a heading line that ends with its separator, a label inside a
\* line, plain text
HeadingLineShapes ==
    { <<"T1">>, <<"T2", "SP", "DASH", "SP", "W">>, <<"T1", "DASH">>,
      <<"H", "SP", "C1">>, <<"C2">>, <<"S1">>, <<"W", "SP", "C1">> }

HeadingDocuments ==
    { JoinLines(ls) :
        ls \in UNION { [1..n -> HeadingLineShapes] : n \in 0..MaxHeadingLines } }

NoMatch == [end |-> 0, label |-> "", subtitle |-> <<>>]

\* TITLE_PATTERN, CHAPTER_PATTERN, SECTION_PATTERN (they differ in the
\* label only) tried at index p: at a line start, an optional "#" decoration
\* with whitespace, the label (group 1), then optionally whitespace, a
\* separator, whitespace and the rest of that line (group 2).  \s also
\* matches newlines.  end is the index just past the match, 0 for no match.
HEADING_PATTERN_match(labels, s, p) ==
    IF p > Len(s) \/ (p > 1 /\ s[p - 1] # "NL") THEN NoMatch
    ELSE LET h == SkipSet(s, p, {"H"})
             q == IF h - p >= 1 /\ h - p <= 6 THEN SkipSet(s, h, WS) ELSE p
             r == SkipSet(s, q + 1, WS)
             t == SkipSet(s, r + 1, WS)
             eol == SkipSet(s, t, {"T1", "T2", "C1", "C2", "S1", "DASH", "W",
                                   "H", "SP"})
         IN  IF q > Len(s) \/ s[q] \notin labels THEN NoMatch
             ELSE IF r <= Len(s) /\ s[r] = "DASH" /\ t <= Len(s)
                  THEN [end |-> eol, label |-> s[q],
                        subtitle |-> SubSeq(s, t, eol - 1)]
             ELSE [end |-> q + 1, label |-> s[q], subtitle |-> <<>>]

\* pattern.finditer(search_text): the non-overlapping matches, left to right
RECURSIVE HEADING_PATTERN_finditer(_, _, _)
HEADING_PATTERN_finditer(labels, s, p) ==
    IF p > Len(s) THEN <<>>
    ELSE LET m == HEADING_PATTERN_match(labels, s, p)
         IN  IF m.end # 0
             THEN <<m>> \o HEADING_PATTERN_finditer(labels, s, m.end)
             ELSE HEADING_PATTERN_finditer(labels, s, p + 1)

\* f"{title} - {subtitle}" if subtitle else title, both stripped
HeadingText(m) ==
    IF strip(m.subtitle) # <<>>
    THEN <<m.label, "SP", "DASH", "SP">> \o strip(m.subtitle)
    ELSE <<m.label>>

\* lines 111-132: one entry per level that has a match, the last match
LastOfEachLevel(levels) ==
    LET found == SelectSeq(levels, LAMBDA matches : matches # <<>>)
    IN  [n \in 1..Len(found) |-> HeadingText(found[n][Len(found[n])])]

extract_hierarchy(text, pos) ==
    LET search_text == Slice(text, 0, pos)
        titles   == HEADING_PATTERN_finditer(TitleSyms, search_text, 1)
        chapters == HEADING_PATTERN_finditer(ChapterSyms, search_text, 1)
        sections == HEADING_PATTERN_finditer(SectionSyms, search_text, 1)
    IN  LastOfEachLevel(<<titles, chapters, sections>>)

HierarchyInit ==
    /\ hier_text \in HeadingDocuments
    /\ up_to_pos \in 0..Len(hier_text)
    /\ hphase = "input"
    /\ hierarchy = <<>>
    /\ PipelineOff /\ ChatOff /\ EmbeddingOff /\ EtlOff /\ AuxOff

\* extract_hierarchy(text, up_to_pos)
ExtractHierarchy ==
    /\ hphase = "input"
    /\ hierarchy' = extract_hierarchy(hier_text, up_to_pos)
    /\ hphase' = "done"
    /\ UNCHANGED <<hier_text, up_to_pos>>
    /\ UNCHANGED <<pipelineVars, chatVars, embedVars, etlVars, auxVars>>

HierarchyNext == ExtractHierarchy

SpecHierarchy == HierarchyInit /\ [][HierarchyNext]_vars

----------------------------------------------------------------------------
(* chat/service.py: the decision the agent parses *)

\* The decision LLM's reply is a sequence of lexical tokens:
\*   "FENCE" a markdown code fence (```), "NL" a newline, "SP" a blank,
\*   "x" text that is not JSON, "5" a JSON number, "[" "]" a JSON array,
\*   "{" "}" the braces of a JSON object, and one token per object member.
DecisionFields ==
    {"needs_search:true", "needs_search:false", "search_query:q",
     "direct_response:r", "direct_response:empty"}

FieldKey(f) ==
    CASE f \in {"needs_search:true", "needs_search:false"} -> "needs_search"
      [] f = "search_query:q" -> "search_query"
      [] OTHER -> "direct_response"

\* JSON objects holding any of the three members
DecisionObjects ==
    { <<"{">> \o ns \o sq \o dr \o <<"}">> :
        ns \in {<<>>, <<"needs_search:true">>, <<"needs_search:false">>},
        sq \in {<<>>, <<"search_query:q">>},
        dr \in {<<>>, <<"direct_response:r">>, <<"direct_response:empty">>} }

DecisionBodies ==
    DecisionObjects \cup {<<>>, <<"x">>, <<"5">>, <<"[", "]">>, <<"{", "x">>}

\* the replies: a body bare, padded with whitespace, or wrapped in a fence
DecisionTexts ==
    DecisionBodies
    \cup { <<"SP">> \o b \o <<"NL">> : b \in DecisionBodies }
    \cup { <<"FENCE", "x", "NL">> \o b \o <<"NL", "FENCE">> :
             b \in DecisionBodies }
    \cup { <<"FENCE">> }

\* clean.split("\n", 1)[-1]
AfterFirstNewline(s) ==
    LET at == {i \in 1..Len(s) : s[i] = "NL"}
    IN  IF at = {} THEN s
        ELSE SubSeq(s, (CHOOSE i \in at : \A j \in at : i <= j) + 1, Len(s))

\* s.rsplit("```", 1)[0]
BeforeLastFence(s) ==
    LET at == {i \in 1..Len(s) : s[i] = "FENCE"}
    IN  IF at = {} THEN s
        ELSE SubSeq(s, 1, (CHOOSE i \in at : \A j \in at : i >= j) - 1)

\* lines 167-169: the text handed to json.loads
CleanDecision(text) ==
    LET clean == strip(text)
    IN  IF clean # <<>> /\ clean[1] = "FENCE"
        THEN strip(BeforeLastFence(AfterFirstNewline(clean)))
        ELSE clean

\* json.loads: the value parsed, or kind "error" for a JSONDecodeError
json_loads(s) ==
    IF s = <<"5">> THEN [kind |-> "number", members |-> {}]
    ELSE IF s = <<"[", "]">> THEN [kind |-> "array", members |-> {}]
    ELSE IF /\ Len(s) >= 2
            /\ s[1] = "{"
            /\ s[Len(s)] = "}"
            /\ \A i \in 2..(Len(s) - 1) : s[i] \in DecisionFields
         THEN [kind |-> "object",
               members |-> {s[i] : i \in 2..(Len(s) - 1)}]
    ELSE [kind |-> "error", members |-> {}]

\* decision.get("needs_search", True)
GetNeedsSearch(members) == "needs_search:false" \notin members

\* decision.get("search_query", message)
GetSearchQuery(members, message) ==
    IF "search_query:q" \in members THEN "q" ELSE message

\* decision.get("direct_response", "")
GetDirectResponse(members) ==
    IF "direct_response:r" \in members THEN "r" ELSE ""

\* lines 161-179: the locals after the parse; raised when an exception
\* other than JSONDecodeError and KeyError leaves the try block (a parsed
\* value that is no dict has no .get: AttributeError)
ParseDecision(text, message) ==
    LET decision == json_loads(CleanDecision(text))
        fallback == [raised |-> FALSE, needs_search |-> TRUE,
                     search_query |-> message, direct_response |-> "None"]
    IN  IF decision.kind = "error" THEN fallback
        ELSE IF decision.kind # "object"
             THEN [fallback EXCEPT !.raised = TRUE]
        ELSE IF GetNeedsSearch(decision.members)
             THEN [fallback EXCEPT
                     !.search_query = GetSearchQuery(decision.members, message)]
        ELSE [fallback EXCEPT
                !.needs_search = FALSE,
                !.direct_response = GetDirectResponse(decision.members)]

NotNone(text) == text # "None"

\* Python truthiness of direct_response (None and "" are false)
Truthy(text) == text \notin {"None", ""}

----------------------------------------------------------------------------
(* chat/service.py: run_chat; chat/router.py: chat_endpoint *)

MaxChatTopK == 2

UserMessage == "message"

NotFoundAnswer == "not found"

ChatResponse(answer, sources, used_search) ==
    [answer |-> answer, sources |-> sources, used_search |-> used_search]

\* result.metadata.get("source", ""): the document a corpus chunk is from
DocumentOf(content) ==
    CASE content \in {"a0", "a1"} -> "docA"
      [] content = "b" -> "docB"
      [] OTHER -> "docC"

\* lines 248-263: one SourceInfo per distinct source name, first seen first
RECURSIVE Sources(_, _)
Sources(results, seen) ==
    IF results = <<>> THEN <<>>
    ELSE LET source_name == DocumentOf(Head(results).content)
         IN  IF source_name # "" /\ source_name \notin seen
             THEN <<source_name>>
                  \o Sources(Tail(results), seen \cup {source_name})
             ELSE Sources(Tail(results), seen)

NeverEmpty(results) == FALSE

\* line 206: `not top_results`
NoTopResults(results) == results = <<>>

RunChatInit ==
    /\ chat_top_k \in 0..MaxChatTopK
    /\ retrieval_fails \in BOOLEAN
    /\ chat_pc = "start"
    /\ ChatIdle
    /\ PipelineOff /\ EmbeddingOff /\ EtlOff /\ HierarchyOff /\ AuxOff

\* lines 145-190: the decision LLM call returns; the decision is parsed and,
\* when it asks for no search and carries a direct response, returned
DecisionCall ==
    /\ chat_pc = "start"
    /\ \E text \in DecisionTexts :
         LET d == ParseDecision(text, UserMessage)
         IN  /\ decision_text' = text
             /\ calls' = Append(calls, "llm_decision")
             /\ needs_search' = d.needs_search
             /\ search_query' = d.search_query
             /\ direct_response' = d.direct_response
             /\ IF d.raised
                THEN /\ chat_pc' = "raised"
                     /\ UNCHANGED chat_response
                ELSE IF ~d.needs_search /\ Truthy(d.direct_response)
                THEN /\ chat_response' =
                          ChatResponse(d.direct_response, <<>>, FALSE)
                     /\ chat_pc' = "returned"
                ELSE /\ chat_pc' = "search"
                     /\ UNCHANGED chat_response
    /\ UNCHANGED <<chat_top_k, retrieval_fails, chat_candidates, top_results,
                   http_status>>
    /\ UNCHANGED <<pipelineVars, embedVars, etlVars, hierVars, auxVars>>

\* line 145: the decision LLM call raises
DecisionCallFails ==
    /\ chat_pc = "start"
    /\ calls' = calls \o <<"llm_decision", "exception">>
    /\ chat_pc' = "raised"
    /\ UNCHANGED <<decision_text, chat_top_k, retrieval_fails, needs_search,
                   search_query,
                   direct_response, chat_candidates, top_results,
                   chat_response, http_status>>
    /\ UNCHANGED <<pipelineVars, embedVars, etlVars, hierVars, auxVars>>

\* lines 195-201: engine.search_hybrid returns the candidates
SearchHybridCall ==
    /\ chat_pc = "search"
    /\ ~retrieval_fails
    /\ \E cands \in CandidateLists : chat_candidates' = cands
    /\ calls' = Append(calls, "search_hybrid")
    /\ chat_pc' = "rerank"
    /\ UNCHANGED <<decision_text, chat_top_k, retrieval_fails, needs_search,
                   search_query,
                   direct_response, top_results, chat_response, http_status>>
    /\ UNCHANGED <<pipelineVars, embedVars, etlVars, hierVars, auxVars>>

\* lines 195-201: the retrieval fails (search_hybrid raises)
SearchHybridFails ==
    /\ chat_pc = "search"
    /\ retrieval_fails
    /\ calls' = calls \o <<"search_hybrid", "exception">>
    /\ chat_pc' = "raised"
    /\ UNCHANGED <<decision_text, chat_top_k, retrieval_fails, needs_search,
                   search_query,
                   direct_response, chat_candidates, top_results,
                   chat_response, http_status>>
    /\ UNCHANGED <<pipelineVars, embedVars, etlVars, hierVars, auxVars>>

\* lines 204-214: rerank(search_query, candidates, top_k=top_k), then the
\* fixed answer when nothing is left
RerankCall ==
    /\ chat_pc = "rerank"
    /\ \E scores \in [1..Len(chat_candidates) -> RerankLevels] :
         LET r == rerank(chat_candidates, scores, chat_top_k, <<>>)
         IN  /\ calls' = Append(calls, "rerank")
             /\ IF r.raised
                THEN /\ chat_pc' = "raised"
                     /\ UNCHANGED <<top_results, chat_response>>
                ELSE /\ top_results' = r.final
                     /\ IF NoTopResults(r.final)
                        THEN /\ chat_response' =
                                  ChatResponse(NotFoundAnswer, <<>>, TRUE)
                             /\ chat_pc' = "returned"
                        ELSE /\ chat_pc' = "answer"
                             /\ UNCHANGED chat_response
    /\ UNCHANGED <<decision_text, chat_top_k, retrieval_fails, needs_search,
                   search_query,
                   direct_response, chat_candidates, http_status>>
    /\ UNCHANGED <<pipelineVars, embedVars, etlVars, hierVars, auxVars>>

\* lines 217-271: the answer LLM call returns; the response is assembled
AnswerCall ==
    /\ chat_pc = "answer"
    /\ calls' = Append(calls, "llm_answer")
    /\ chat_response' = ChatResponse("llm answer", Sources(top_results, {}),
                                     TRUE)
    /\ chat_pc' = "returned"
    /\ UNCHANGED <<decision_text, chat_top_k, retrieval_fails, needs_search,
                   search_query,
                   direct_response, chat_candidates, top_results, http_status>>
    /\ UNCHANGED <<pipelineVars, embedVars, etlVars, hierVars, auxVars>>

\* line 234: the answer LLM call raises
AnswerCallFails ==
    /\ chat_pc = "answer"
    /\ calls' = calls \o <<"llm_answer", "exception">>
    /\ chat_pc' = "raised"
    /\ UNCHANGED <<decision_text, chat_top_k, retrieval_fails, needs_search,
                   search_query,
                   direct_response, chat_candidates, top_results,
                   chat_response, http_status>>
    /\ UNCHANGED <<pipelineVars, embedVars, etlVars, hierVars, auxVars>>

\* router.py lines 30-40: the response of run_chat, or HTTP 500 for any
\* exception
chat_endpoint ==
    /\ chat_pc \in {"returned", "raised"}
    /\ http_status = 0
    /\ http_status' = (IF chat_pc = "returned" THEN 200 ELSE 500)
    /\ UNCHANGED <<decision_text, chat_top_k, retrieval_fails, chat_pc, calls,
                   needs_search,
                   search_query, direct_response, chat_candidates,
                   top_results, chat_response>>
    /\ UNCHANGED <<pipelineVars, embedVars, etlVars, hierVars, auxVars>>

ChatNext ==
    \/ DecisionCall
    \/ DecisionCallFails
    \/ SearchHybridCall
    \/ SearchHybridFails
    \/ RerankCall
    \/ AnswerCall
    \/ AnswerCallFails
    \/ chat_endpoint

SpecChat == RunChatInit /\ [][ChatNext]_vars

----------------------------------------------------------------------------
(* indexing/vector_store.py: generate_embeddings *)

MaxTexts == 4

\* the texts handed to generate_embeddings
TextValues == {"a", "b", " b", ""}

TextLists ==
    UNION { [1..n -> TextValues] : n \in 0..MaxTexts }

\* _sanitize_text: the empty (or blank) text becomes " ", others are stripped
_sanitize_text(text) ==
    CASE text = "" -> " "
      [] text = " b" -> "b"
      [] OTHER -> text

\* line 62
Sanitized(list) == [n \in 1..Len(list) |-> _sanitize_text(list[n])]

\* the batch size of line 65 is 256; it is scaled down with the lists, so that
\* a list of MaxTexts texts spans more than one batch
batch_size == 2

BatchFromStart(list, i) ==
    SubSeq(Sanitized(list), 1,
           IF batch_size < Len(list) THEN batch_size ELSE Len(list))

\* sanitized[i : i + batch_size]
Batch(list, i) ==
    SubSeq(Sanitized(list), i + 1,
           IF i + batch_size < Len(list) THEN i + batch_size ELSE Len(list))

\* the vector the embedding service returns for an input text
Embedding(text) == <<"embedding", text>>

\* a request to an external service and its outcome
Request(service, input, ok) ==
    [service |-> service, input |-> input, ok |-> ok]

\* an exception leaving generate_embeddings also leaves its caller
Propagate(pc) == IF pc = "embedding" THEN "raised" ELSE pc

EmbeddingInit ==
    /\ texts \in TextLists
    /\ epc = "batch"
    /\ qpc = "off"
    /\ EmbeddingIdle
    /\ PipelineOff /\ ChatOff /\ EtlOff /\ HierarchyOff /\ AuxOff

\* lines 69-74: the request for the batch succeeds
BatchRequestSucceeds ==
    /\ epc = "batch"
    /\ batch_start < Len(texts)
    /\ LET batch == Batch(texts, batch_start)
       IN  /\ requests' = Append(requests, Request("embeddings", batch, TRUE))
           /\ all_embeddings' =
                all_embeddings \o [n \in 1..Len(batch) |-> Embedding(batch[n])]
    /\ batch_start' = batch_start + batch_size
    /\ UNCHANGED <<texts, epc, item, qpc, query_results>>
    /\ UNCHANGED <<pipelineVars, chatVars, etlVars, hierVars, auxVars>>

\* lines 75-78: the request for the batch fails; the items are retried
BatchRequestFails ==
    /\ epc = "batch"
    /\ batch_start < Len(texts)
    /\ requests' = Append(requests,
                          Request("embeddings", Batch(texts, batch_start),
                                  FALSE))
    /\ epc' = "items"
    /\ item' = 0
    /\ UNCHANGED <<texts, batch_start, all_embeddings, qpc, query_results>>
    /\ UNCHANGED <<pipelineVars, chatVars, etlVars, hierVars, auxVars>>

\* lines 79-81: the request for one item of the failed batch succeeds
ItemRequestSucceeds ==
    /\ epc = "items"
    /\ item < Len(Batch(texts, batch_start))
    /\ LET text == Batch(texts, batch_start)[item + 1]
       IN  /\ requests' =
                Append(requests, Request("embeddings", <<text>>, TRUE))
           /\ all_embeddings' = Append(all_embeddings, Embedding(text))
    /\ item' = item + 1
    /\ UNCHANGED <<texts, epc, batch_start, qpc, query_results>>
    /\ UNCHANGED <<pipelineVars, chatVars, etlVars, hierVars, auxVars>>

\* lines 82-85: the request for one item of the failed batch fails
ItemRequestFails ==
    /\ epc = "items"
    /\ item < Len(Batch(texts, batch_start))
    /\ requests' =
         Append(requests,
                Request("embeddings",
                        <<Batch(texts, batch_start)[item + 1]>>, FALSE))
    /\ epc' = "placeholder"
    /\ UNCHANGED <<texts, batch_start, item, all_embeddings, qpc,
                   query_results>>
    /\ UNCHANGED <<pipelineVars, chatVars, etlVars, hierVars, auxVars>>

\* lines 87-88: the request for the placeholder embedding succeeds
PlaceholderRequestSucceeds ==
    /\ epc = "placeholder"
    /\ requests' = Append(requests, Request("embeddings", <<" ">>, TRUE))
    /\ all_embeddings' = Append(all_embeddings, Embedding(" "))
    /\ item' = item + 1
    /\ epc' = "items"
    /\ UNCHANGED <<texts, batch_start, qpc, query_results>>
    /\ UNCHANGED <<pipelineVars, chatVars, etlVars, hierVars, auxVars>>

\* line 87: the request for the placeholder embedding fails, inside the
\* except block: the exception leaves generate_embeddings
PlaceholderRequestFails ==
    /\ epc = "placeholder"
    /\ requests' = Append(requests, Request("embeddings", <<" ">>, FALSE))
    /\ epc' = "raised"
    /\ qpc' = Propagate(qpc)
    /\ UNCHANGED <<texts, batch_start, item, all_embeddings, query_results>>
    /\ UNCHANGED <<pipelineVars, chatVars, etlVars, hierVars, auxVars>>

\* line 78: the loop over the failed batch ends; on to the next batch
EndOfFailedBatch ==
    /\ epc = "items"
    /\ item = Len(Batch(texts, batch_start))
    /\ batch_start' = batch_start + batch_size
    /\ epc' = "batch"
    /\ UNCHANGED <<texts, item, all_embeddings, requests, qpc, query_results>>
    /\ UNCHANGED <<pipelineVars, chatVars, etlVars, hierVars, auxVars>>

\* lines 68, 90: no batch is left; return all_embeddings (query_dense goes
\* on with its collection query)
ReturnEmbeddings ==
    /\ epc = "batch"
    /\ batch_start >= Len(texts)
    /\ epc' = "returned"
    /\ qpc' = (IF qpc = "embedding" THEN "query" ELSE qpc)
    /\ UNCHANGED <<texts, batch_start, item, all_embeddings, requests,
                   query_results>>
    /\ UNCHANGED <<pipelineVars, chatVars, etlVars, hierVars, auxVars>>

generate_embeddings ==
    \/ BatchRequestSucceeds
    \/ BatchRequestFails
    \/ ItemRequestSucceeds
    \/ ItemRequestFails
    \/ PlaceholderRequestSucceeds
    \/ PlaceholderRequestFails
    \/ EndOfFailedBatch
    \/ ReturnEmbeddings

EmbeddingNext == generate_embeddings

SpecEmbedding == EmbeddingInit /\ [][EmbeddingNext]_vars

----------------------------------------------------------------------------
(* indexing/vector_store.py: query_dense; hybrid_search.py: search_dense *)

\* search_dense(query, top_k, filter_revoked) is called; search_hybrid calls
\* it first, and neither has a try block around the call
DenseQueryInit ==
    /\ texts \in {<<query>> : query \in TextValues}
    /\ epc = "off"
    /\ qpc = "collection"
    /\ EmbeddingIdle
    /\ top_k \in 1..MaxTopK
    /\ filter_revoked \in BOOLEAN
    /\ weights = <<0, 0>>
    /\ dense_ranking = <<>>
    /\ bm25_scores = <<>>
    /\ rphase = "input"
    /\ hybrid_results = <<>>
    /\ sparse_hits = <<>>
    /\ ChunkerOff /\ RerankOff /\ RevocationOff /\ ChatOff /\ EtlOff
    /\ HierarchyOff /\ AuxOff

\* vector_store.py lines 201-205: the collection is obtained, then
\* generate_embeddings([query]) is called
GetCollection ==
    /\ qpc = "collection"
    /\ requests' = Append(requests,
                          Request("index", <<"get_or_create_collection">>,
                                  TRUE))
    /\ qpc' = "embedding"
    /\ epc' = "batch"
    /\ UNCHANGED <<texts, batch_start, item, all_embeddings, query_results>>
    /\ UNCHANGED <<pipelineVars, chatVars, etlVars, hierVars, auxVars>>

\* vector_store.py lines 201-202: the vector index cannot be opened
GetCollectionFails ==
    /\ qpc = "collection"
    /\ requests' = Append(requests,
                          Request("index", <<"get_or_create_collection">>,
                                  FALSE))
    /\ qpc' = "raised"
    /\ UNCHANGED <<texts, epc, batch_start, item, all_embeddings,
                   query_results>>
    /\ UNCHANGED <<pipelineVars, chatVars, etlVars, hierVars, auxVars>>

\* vector_store.py lines 205-214 and hybrid_search.py lines 126-144: the
\* index is queried with generate_embeddings([query])[0] and answers with a
\* ranking, which search_dense returns as SearchResults
CollectionQuery ==
    /\ qpc = "query"
    /\ \E ranking \in DenseRankings(top_k, filter_revoked) :
         /\ dense_ranking' = ranking
         /\ query_results' = [query_embedding |-> all_embeddings[1],
                              results |-> search_dense(ranking, top_k)]
    /\ requests' = Append(requests, Request("index", <<"query">>, TRUE))
    /\ qpc' = "returned"
    /\ UNCHANGED <<texts, epc, batch_start, item, all_embeddings>>
    /\ UNCHANGED <<top_k, weights, filter_revoked, bm25_scores, rphase,
                   hybrid_results, sparse_hits>>
    /\ UNCHANGED <<chunkerVars, rerankVars, revocationVars, chatVars,
                   etlVars, hierVars, auxVars>>

\* vector_store.py lines 207-212: the vector index is unreachable or errs
CollectionQueryFails ==
    /\ qpc = "query"
    /\ requests' = Append(requests, Request("index", <<"query">>, FALSE))
    /\ qpc' = "raised"
    /\ UNCHANGED <<texts, epc, batch_start, item, all_embeddings,
                   query_results>>
    /\ UNCHANGED <<pipelineVars, chatVars, etlVars, hierVars, auxVars>>

DenseQueryNext ==
    \/ GetCollection
    \/ GetCollectionFails
    \/ generate_embeddings
    \/ CollectionQuery
    \/ CollectionQueryFails

SpecDenseQuery == DenseQueryInit /\ [][DenseQueryNext]_vars

----------------------------------------------------------------------------
(* etl/pdf_converter.py: run_etl; scripts/run_etl.py: main *)

MaxDocs == 3

\* a discovered PDF: whether process_single_pdf succeeds on it and whether
\* its revocation analysis, chunking and saving succeed
PdfOutcomes == [converts : BOOLEAN, segments : BOOLEAN]

EtlInit ==
    /\ pdfs \in UNION { [1..n -> PdfOutcomes] : n \in 0..MaxDocs }
    /\ etl_pc = "convert"
    /\ EtlIdle
    /\ PipelineOff /\ ChatOff /\ EmbeddingOff /\ HierarchyOff /\ AuxOff

\* pdf_converter.py lines 147-150: process_single_pdf returns the document
ConvertSucceeds ==
    /\ etl_pc = "convert"
    /\ etl_index <= Len(pdfs)
    /\ pdfs[etl_index].converts
    /\ etl_results' = Append(etl_results, etl_index)
    /\ etl_index' = etl_index + 1
    /\ UNCHANGED <<pdfs, etl_pc, etl_errors, saved>>
    /\ UNCHANGED <<pipelineVars, chatVars, embedVars, hierVars, auxVars>>

\* pdf_converter.py lines 151-153: process_single_pdf raises; the error is
\* collected and the loop goes on
ConvertFails ==
    /\ etl_pc = "convert"
    /\ etl_index <= Len(pdfs)
    /\ ~pdfs[etl_index].converts
    /\ etl_errors' = Append(etl_errors, etl_index)
    /\ etl_index' = etl_index + 1
    /\ UNCHANGED <<pdfs, etl_pc, etl_results, saved>>
    /\ UNCHANGED <<pipelineVars, chatVars, embedVars, hierVars, auxVars>>

\* pdf_converter.py lines 155-161 and run_etl.py lines 39-43: run_etl
\* returns; main stops when nothing was converted
EndOfConversion ==
    /\ etl_pc = "convert"
    /\ etl_index > Len(pdfs)
    /\ etl_pc' = (IF etl_results = <<>> THEN "done" ELSE "chunk")
    /\ etl_index' = 1
    /\ UNCHANGED <<pdfs, etl_results, etl_errors, saved>>
    /\ UNCHANGED <<pipelineVars, chatVars, embedVars, hierVars, auxVars>>

\* run_etl.py lines 51-69: revocation analysis, chunking and saving of one
\* converted document
ChunkAndSave ==
    /\ etl_pc = "chunk"
    /\ etl_index <= Len(etl_results)
    /\ pdfs[etl_results[etl_index]].segments
    /\ saved' = Append(saved, etl_results[etl_index])
    /\ etl_index' = etl_index + 1
    /\ UNCHANGED <<pdfs, etl_pc, etl_results, etl_errors>>
    /\ UNCHANGED <<pipelineVars, chatVars, embedVars, hierVars, auxVars>>

\* run_etl.py lines 51-69: analyze_revocation, chunk_document or
\* save_chunks raises; the loop has no try block, the exception leaves main
ChunkFails ==
    /\ etl_pc = "chunk"
    /\ etl_index <= Len(etl_results)
    /\ ~pdfs[etl_results[etl_index]].segments
    /\ etl_pc' = "aborted"
    /\ UNCHANGED <<pdfs, etl_index, etl_results, etl_errors, saved>>
    /\ UNCHANGED <<pipelineVars, chatVars, embedVars, hierVars, auxVars>>

\* run_etl.py lines 71-78: the summary; main returns
EndOfBatch ==
    /\ etl_pc = "chunk"
    /\ etl_index > Len(etl_results)
    /\ etl_pc' = "done"
    /\ UNCHANGED <<pdfs, etl_index, etl_results, etl_errors, saved>>
    /\ UNCHANGED <<pipelineVars, chatVars, embedVars, hierVars, auxVars>>

EtlNext ==
    \/ ConvertSucceeds
    \/ ConvertFails
    \/ EndOfConversion
    \/ ChunkAndSave
    \/ ChunkFails
    \/ EndOfBatch

SpecEtl == EtlInit /\ [][EtlNext]_vars

----------------------------------------------------------------------------
(* Chunker properties *)

Chunked == cphase = "chunked"

SplitDone == cphase = "split"

Markers == ARTICLE_PATTERN_finditer(markdown_text, 1)

NonWS(s) == SelectSeq(s, LAMBDA x : x \notin WS)

ChunkIds == {all_chunks[i].metadata.article_id : i \in 1..Len(all_chunks)}

ChunksOf(aid) ==
    {i \in 1..Len(all_chunks) : all_chunks[i].metadata.article_id = aid}

\* C1: among the chunks chunk_document emits for one document, for every
\* article_id the chunk_index values are exactly 0..n-1 and exactly one
\* chunk has chunk_index 0.
C1_ChunkIndexContiguousPerArticleId ==
    Chunked =>
        \A aid \in ChunkIds :
            /\ {all_chunks[i].metadata.chunk_index : i \in ChunksOf(aid)}
                   = 0..(Cardinality(ChunksOf(aid)) - 1)
            /\ Cardinality({i \in ChunksOf(aid) :
                              all_chunks[i].metadata.chunk_index = 0}) = 1

\* C5: with N article markers split_into_articles yields N article blocks
\* plus at most one preamble block, in document order; article block i sits
\* at marker i and holds the text from marker i to marker i+1 (or the end),
\* trimmed; together the article blocks hold every non-blank symbol from the
\* first marker to the end exactly once.  Without markers the whole document
\* is the single block.
C5_SegmenterBlocksCoverDocument ==
    Chunked =>
        LET m   == Markers
            N   == Len(m)
            pre == Len(articles) - N
            n   == Len(markdown_text)
        IN  IF N = 0
            THEN articles = <<[pos |-> 0, text |-> strip(markdown_text)]>>
            ELSE /\ pre \in {0, 1}
                 /\ pre = 1 =>
                      /\ articles[1].pos = 0
                      /\ articles[1].text = strip(SubSeq(markdown_text, 1, m[1] - 1))
                 /\ \A i \in 1..N :
                      /\ articles[pre + i].pos = m[i] - 1
                      /\ articles[pre + i].text =
                           strip(SubSeq(markdown_text, m[i],
                                        IF i < N THEN m[i + 1] - 1 ELSE n))
                 /\ \A i \in 1..(Len(articles) - 1) :
                      articles[i].pos < articles[i + 1].pos
                 /\ Flatten([i \in 1..N |-> NonWS(articles[pre + i].text)])
                      = NonWS(SubSeq(markdown_text, m[1], n))

C5_Witness ==
    /\ Chunked
    /\ Len(Markers) >= 2
    /\ Len(articles) = Len(Markers) + 1

\* C6: for an article whose token count is within the budget
\* split_long_chunk returns exactly one chunk, whose content is the article
\* text (surrounding whitespace ignored) and whose chunk_index is 0.
C6_ShortArticleSingleChunk ==
    (SplitDone /\ count_tokens(article_text) <= max_tokens) =>
        /\ Len(units) = 1
        /\ strip(units[1].content) = strip(article_text)
        /\ units[1].metadata.chunk_index = 0

\* an article within the budget that has a remainder after its caput, so the
\* line walk runs
C6_Witness ==
    /\ SplitDone
    /\ count_tokens(article_text) <= max_tokens
    /\ Rest(article_text) # <<>>
    /\ Len(units) = 1

\* the accumulated-line portion of a unit: what follows the continuation
\* marker, or, in a unit without the marker, what follows the caput
AccumulatedPortion(content) ==
    LET at == {i \in 1..Len(content) : content[i] = "CONT"}
    IN  IF at # {}
        THEN SubSeq(content, (CHOOSE i \in at : TRUE) + 3, Len(content))
        ELSE strip(SubSeq(content, Len(Caput(article_text)) + 1, Len(content)))

\* C7: for an article over the budget, the accumulated-line portions of the
\* units, taken in chunk_index order, hold the remainder's lines: every
\* line once, in the original order.
C7_PortionsReconstructRemainder ==
    (SplitDone /\ count_tokens(article_text) > max_tokens) =>
        /\ \A i \in 1..Len(units) : units[i].metadata.chunk_index = i - 1
        /\ Flatten([i \in 1..Len(units) |->
                      SplitLines(AccumulatedPortion(units[i].content))])
             = SplitLines(Rest(article_text))

C7_Witness ==
    /\ SplitDone
    /\ count_tokens(article_text) > max_tokens
    /\ Len(units) >= 2
    /\ \E i \in 1..Len(units) :
         Len(SplitLines(AccumulatedPortion(units[i].content))) >= 2

\* a document with three article markers, exactly one of whose article
\* blocks exceeds the budget
ThreeArticlesOneLong ==
    /\ Chunked
    /\ Len(Markers) = 3
    /\ Cardinality({j \in (Len(articles) - 2)..Len(articles) :
                      count_tokens(articles[j].text) > max_tokens}) = 1

LongArticle ==
    CHOOSE j \in (Len(articles) - 2)..Len(articles) :
        count_tokens(articles[j].text) > max_tokens

\* the output is: p preamble chunks, one unsplit chunk per short article and
\* k >= kMin chunks of the long article that share one article_id and have
\* strictly increasing chunk_index, all in document order
ThreeArticleOutput(kMin, preambleAllowed) ==
    LET pre  == Len(articles) - 3
        long == LongArticle
        n    == Len(all_chunks)
    IN  /\ preambleAllowed \/ pre = 0
        /\ \E p \in 0..n, k \in kMin..n :
             /\ p + 2 + k = n
             /\ pre = 0 => p = 0
             /\ pre = 1 => p >= 1
             /\ \A j \in ((pre + 1)..(pre + 3)) \ {long} :
                  LET c == all_chunks[IF j < long THEN p + (j - pre)
                                      ELSE p + (j - pre) - 1 + k]
                  IN  /\ c.content = articles[j].text
                      /\ c.metadata.chunk_index = 0
                      /\ ~c.metadata.is_child_chunk
             /\ \A i \in 1..k :
                  LET c == all_chunks[p + (long - pre - 1) + i]
                      f == all_chunks[p + (long - pre - 1) + 1]
                  IN  /\ c.metadata.article_id = f.metadata.article_id
                      /\ i > 1 =>
                           all_chunks[p + (long - pre - 1) + i - 1]
                               .metadata.chunk_index < c.metadata.chunk_index

\* C8 as stated: a 3-article document with exactly one article over the
\* budget yields exactly 2 unsplit chunks plus at least 2 chunks of the long
\* article, which share the article_id and have strictly increasing
\* chunk_index.
C8_ThreeArticlesAtLeastTwoSplitChunks ==
    ThreeArticlesOneLong => ThreeArticleOutput(2, FALSE)

\* C8 amended: such a document yields one unsplit chunk for each of the two
\* short articles, at least 1 chunk of the long article (its chunks share
\* the article_id and have strictly increasing chunk_index), and in front of
\* them the chunks of the preamble block when the document has one.
C8_ThreeArticlesAtLeastOneLongChunk ==
    ThreeArticlesOneLong => ThreeArticleOutput(1, TRUE)

C8_Witness ==
    /\ ThreeArticlesOneLong
    /\ Len(articles) = 3
    /\ Len(all_chunks) >= 4

\* C17: every unit split_long_chunk emits, on every return path, has its
\* chunk_index in creation order from 0, is_child_chunk equal to
\* (chunk_index > 0), and parent_article equal to the article's article_id.
C17_UnitMetadataOnEveryPath ==
    SplitDone =>
        \A n \in 1..Len(units) :
            /\ units[n].metadata.chunk_index = n - 1
            /\ units[n].metadata.is_child_chunk = (n - 1 > 0)
            /\ units[n].metadata.article_id = extract_article_id(article_text)
            /\ units[n].metadata.parent_article
                   = extract_article_id(article_text)

\* the chunk was built from a block that starts at an article marker
StartsAtMarker(content) == ARTICLE_PATTERN_match(content, 1) # 0

\* the label of the marker a content starts at
MarkerLabel(content) ==
    content[CHOOSE i \in 1..Len(content) :
              /\ content[i] \in ArtSyms
              /\ \A j \in 1..(i - 1) : content[j] \notin ArtSyms]

\* C20: in chunk_document's output every chunk built from a block that
\* starts at an article marker, decorated or not, carries that article's
\* (non-empty) label as article_id, and every chunk built from the preamble
\* block or from a marker-less document has an empty article_id.
C20_ArticleIdEmptyExactlyForPreamble ==
    Chunked =>
        \A n \in 1..Len(all_chunks) :
            IF StartsAtMarker(all_chunks[n].content)
            THEN all_chunks[n].metadata.article_id
                     = MarkerLabel(all_chunks[n].content)
            ELSE all_chunks[n].metadata.article_id = ""

\* a is b with symbols left out, order kept
RECURSIVE Embeds(_, _)
Embeds(a, b) ==
    IF a = <<>> THEN TRUE
    ELSE IF b = <<>> THEN FALSE
    ELSE IF Head(a) = Head(b) THEN Embeds(Tail(a), Tail(b))
    ELSE Embeds(a, Tail(b))

\* the text of a chunk that comes from its block: the content without blanks
\* and without the continuation marker
OwnText(content) == SelectSeq(content, LAMBDA x : x \notin WS \cup {"CONT"})

\* the chunks that open a block's run: those with chunk_index 0
RunStarts == {i \in 1..Len(all_chunks) : all_chunks[i].metadata.chunk_index = 0}

RunOf(i) == Cardinality({r \in RunStarts : r <= i})

\* C26: chunk_document emits the chunks in the order of their blocks: the
\* chunks of one block form one run, the runs follow each other in block
\* order, and inside a run chunk_index ascends one by one from 0, so no
\* chunk of a later block stands before a chunk of an earlier one
C26_ChunksInDocumentOrder ==
    Chunked =>
        /\ Cardinality(RunStarts) = Len(articles)
        /\ \A i \in 1..Len(all_chunks) :
              /\ RunOf(i) \in 1..Len(articles)
              /\ Embeds(OwnText(all_chunks[i].content),
                        NonWS(articles[RunOf(i)].text))
              /\ i \notin RunStarts =>
                    /\ i > 1
                    /\ all_chunks[i].metadata.chunk_index
                         = all_chunks[i - 1].metadata.chunk_index + 1

\* a document of several blocks, an article after the first one split
C26_Witness ==
    /\ Chunked
    /\ Len(articles) >= 2
    /\ Len(all_chunks) > Len(articles)
    /\ \E i \in 2..Len(all_chunks) :
          all_chunks[i].metadata.chunk_index = 1 /\ RunOf(i) >= 2

\* the lines a unit of the line walk holds: what follows the continuation
\* marker, or the whole rest of the article for the unit that kept the
\* original text
UnitLines(unit) ==
    LET at == {k \in 1..Len(unit.content) : unit.content[k] = "CONT"}
    IN  IF at = {} THEN SplitLines(Rest(article_text))
        ELSE SplitLines(SubSeq(unit.content,
                               (CHOOSE k \in at : TRUE) + 3,
                               Len(unit.content)))

RECURSIVE LineTokens(_)
LineTokens(lines) ==
    IF lines = <<>> THEN 0
    ELSE count_tokens(Head(lines)) + LineTokens(Tail(lines))

UnitTokens(unit) == count_tokens(Caput(article_text)) + LineTokens(UnitLines(unit))

\* C27: in the line walk every emitted unit that holds two or more lines has
\* tokens(caput) + the tokens of its lines <= max_tokens; a unit exceeds the
\* budget only when it holds a single line; and every line of the rest is
\* in exactly one unit, whole and in order
C27_OnlySingleLineUnitsExceedBudget ==
    (SplitDone /\ Rest(article_text) # <<>>) =>
        /\ \A u \in 1..Len(units) :
              UnitTokens(units[u]) > max_tokens
                 => Len(UnitLines(units[u])) = 1
        /\ Flatten([u \in 1..Len(units) |-> UnitLines(units[u])])
              = SplitLines(Rest(article_text))

\* a walk that emitted a unit of two lines within the budget and a unit of
\* one line over the budget
C27_Witness ==
    /\ SplitDone
    /\ Rest(article_text) # <<>>
    /\ \E u \in 1..Len(units) :
          /\ Len(UnitLines(units[u])) >= 2
          /\ UnitTokens(units[u]) <= max_tokens
    /\ \E u \in 1..Len(units) :
          /\ Len(UnitLines(units[u])) = 1
          /\ UnitTokens(units[u]) > max_tokens

----------------------------------------------------------------------------
(* Retrieval properties *)

Searched == rphase = "done"

DenseList == search_dense(dense_ranking, top_k)

SparseList == FilterSparse(search_sparse(bm25_scores, top_k), filter_revoked)

Positions(content, list) == {n \in 1..Len(list) : list[n].content = content}

\* C2: with filter_revoked set, on the mixed-status corpus, no returned
\* SearchResult has status "revogado", whatever the width, the weights and
\* the two candidate rankings.
C2_NoRevokedResultWhenFiltering ==
    (Searched /\ filter_revoked) =>
        \A n \in 1..Len(hybrid_results) :
            hybrid_results[n].metadata.status # "revogado"

\* the revoked chunk was among the sparse candidates, and results came back
C2_Witness ==
    /\ Searched
    /\ filter_revoked
    /\ \E n \in 1..Len(search_sparse(bm25_scores, top_k)) :
         search_sparse(bm25_scores, top_k)[n].metadata.status = "revogado"
    /\ Len(hybrid_results) >= 2

\* the one term a ranking contributes for a chunk: weight / (60 + rank + 1)
\* at the chunk's 0-based rank, nothing when the chunk is not in the ranking
RankingTerm(content, list, weight) ==
    IF Positions(content, list) = {} THEN 0
    ELSE rrf_score(weight, (CHOOSE n \in Positions(content, list) : TRUE) - 1)

\* C3: the fused score of every returned chunk is the sum, over the dense
\* and the sparse ranking in which it appears, of weight / (60 + rank + 1),
\* one term per ranking at most; and with weights 0.7 / 0.3 the dense list
\* c, b, a0 and the sparse list a0, b, c fuse to the order c, b, a0.
C3_FusedScoreIsOneTermPerRanking ==
    Searched =>
        /\ \A n \in 1..Len(hybrid_results) :
              hybrid_results[n].score =
                  RankingTerm(hybrid_results[n].content, DenseList, weights[1])
                  + RankingTerm(hybrid_results[n].content, SparseList, weights[2])
        /\ ( /\ weights = <<7, 3>>
             /\ top_k = 3
             /\ ~filter_revoked
             /\ dense_ranking = <<4, 3, 1>>
             /\ bm25_scores = <<2, 0, 2, 1>> )
           => [n \in 1..Len(hybrid_results) |-> hybrid_results[n].content]
                  = <<"c", "b", "a0">>

\* C4: the fused scores of the returned list never increase from one result
\* to the next.
C4_FusedScoresNonIncreasing ==
    Searched =>
        \A n \in 1..(Len(hybrid_results) - 1) :
            hybrid_results[n].score >= hybrid_results[n + 1].score

\* a result that the sort moved in front of an earlier-inserted one
C4_Witness ==
    /\ Searched
    /\ Len(hybrid_results) >= 3
    /\ hybrid_results[1].score > hybrid_results[2].score
    /\ Len(DenseList) >= 1
    /\ hybrid_results[1].content # DenseList[1].content

\* C11: when the lexical index yields no usable sparse ranking (no corpus
\* chunk scores above 0, so search_sparse returns nothing), search_hybrid
\* returns the dense results unmodified: same items, same order, same
\* scores and same provenance as search_dense returned them.
C11_DegradesToDenseOnlyUnmodified ==
    (Searched /\ search_sparse(bm25_scores, top_k) = <<>>) =>
        /\ Len(hybrid_results) = Len(DenseList)
        /\ \A n \in 1..Len(hybrid_results) :
              /\ hybrid_results[n].content = DenseList[n].content
              /\ hybrid_results[n].metadata = DenseList[n].metadata
              /\ hybrid_results[n].source = DenseList[n].source
              /\ hybrid_results[n].score = DenseList[n].score

\* the first 200 characters of a content: the two sub-chunks of the long
\* article share them
Prefix200(content) == IF content \in {"a0", "a1"} THEN "a-caput" ELSE content

\* the prefix keys present in the dense list or the filtered sparse list
CandidateKeys ==
    {Prefix200(DenseList[n].content) : n \in 1..Len(DenseList)}
    \cup {Prefix200(SparseList[n].content) : n \in 1..Len(SparseList)}

\* the terms weight / (60 + rank + 1) of the candidates of one list that
\* fall under a key, summed from position n on
RECURSIVE KeyTerms(_, _, _, _)
KeyTerms(key, list, weight, n) ==
    IF n > Len(list) THEN 0
    ELSE (IF Prefix200(list[n].content) = key
          THEN rrf_score(weight, n - 1) ELSE 0)
         + KeyTerms(key, list, weight, n + 1)

FusedScore(key) ==
    KeyTerms(key, DenseList, weights[1], 1)
    + KeyTerms(key, SparseList, weights[2], 1)

ResultKeys == {Prefix200(hybrid_results[n].content) : n \in 1..Len(hybrid_results)}

\* C24: search_hybrid returns at most top_k results, no two with the same
\* 200-character prefix, all tagged "hybrid", and they are the top_k
\* highest fused-score entries among the distinct prefix keys of the dense
\* list and the filtered sparse list
C24_TopKDistinctHybrid ==
    Searched =>
        /\ Len(hybrid_results) =
              IF Cardinality(CandidateKeys) < top_k
              THEN Cardinality(CandidateKeys) ELSE top_k
        /\ Cardinality(ResultKeys) = Len(hybrid_results)
        /\ ResultKeys \subseteq CandidateKeys
        /\ \A n \in 1..Len(hybrid_results) :
              /\ hybrid_results[n].source = "hybrid"
              /\ hybrid_results[n].score =
                    FusedScore(Prefix200(hybrid_results[n].content))
        /\ \A key \in CandidateKeys \ ResultKeys :
              \A n \in 1..Len(hybrid_results) :
                  hybrid_results[n].score >= FusedScore(key)

\* a search that had more keys than top_k, with both sub-chunks of the long
\* article among the candidates
C24_Witness ==
    /\ Searched
    /\ Cardinality(CandidateKeys) > top_k
    /\ Len(hybrid_results) = top_k
    /\ top_k >= 2
    /\ \E n \in 1..Len(DenseList) : DenseList[n].content = "a0"
    /\ \E n \in 1..Len(SparseList) : SparseList[n].content = "a1"
    /\ "a-caput" \in ResultKeys

\* the keys in the order the fusion meets them: the dense candidates in
\* dense rank order, then the sparse candidates in sparse rank order
MeetingOrder ==
    [n \in 1..Len(DenseList) |-> Prefix200(DenseList[n].content)]
    \o [n \in 1..Len(SparseList) |-> Prefix200(SparseList[n].content)]

FirstMet(key) ==
    CHOOSE n \in 1..Len(MeetingOrder) :
        /\ MeetingOrder[n] = key
        /\ \A m \in 1..(n - 1) : MeetingOrder[m] # key

\* C25: search_hybrid is a function of the two candidate lists, the weights
\* and the width (a call whose filter flag differs but whose candidate lists
\* are the same returns the same ordered list), and results with equal
\* fused score stand in insertion order: dense candidates in dense rank
\* order first, then sparse-only candidates in sparse rank order
C25_DeterministicTieOrder ==
    Searched =>
        /\ \A n, m \in 1..Len(hybrid_results) :
              (n < m /\ hybrid_results[n].score = hybrid_results[m].score)
                 => FirstMet(Prefix200(hybrid_results[n].content))
                      < FirstMet(Prefix200(hybrid_results[m].content))
        /\ \A f \in BOOLEAN :
              ( /\ \/ ~f
                   \/ \A n \in 1..Len(dense_ranking) :
                         Corpus[dense_ranking[n]].status = "vigente"
                /\ FilterSparse(search_sparse(bm25_scores, top_k), f)
                     = SparseList )
                 => search_hybrid(dense_ranking, bm25_scores, top_k,
                                  weights, f) = hybrid_results

\* a dense-only and a sparse-only result with equal fused scores
C25_Witness ==
    /\ Searched
    /\ \E n, m \in 1..Len(hybrid_results) :
          /\ n < m
          /\ hybrid_results[n].score = hybrid_results[m].score
          /\ \E d \in 1..Len(DenseList) :
                DenseList[d].content = hybrid_results[n].content
          /\ \A d \in 1..Len(DenseList) :
                Prefix200(DenseList[d].content)
                   # Prefix200(hybrid_results[m].content)

----------------------------------------------------------------------------
(* Reranker properties *)

\* the candidates whose model score reaches the threshold
Eligible ==
    {n \in 1..Len(candidates) :
        score_threshold = <<>> \/ model_scores[n] >= score_threshold[1]}

\* C10: for a non-empty candidate list rerank returns the candidates whose
\* model score reaches the threshold, by descending model score, cut to the
\* first top_k, each tagged "reranked"; when no candidate reaches the
\* threshold it returns the empty list.
C10_RerankReturnsThresholdedTopK ==
    (kphase # "input" /\ candidates # <<>>) =>
        /\ kphase = "returned"
        /\ Len(reranked) = Min(rerank_top_k, Cardinality(Eligible))
        /\ \A n \in 1..Len(reranked) :
              /\ reranked[n].source = "reranked"
              /\ \E c \in Eligible :
                    /\ candidates[c].content = reranked[n].content
                    /\ model_scores[c] = reranked[n].score
        /\ \A n \in 1..(Len(reranked) - 1) :
              reranked[n].score >= reranked[n + 1].score
        /\ \A c \in Eligible :
              \/ \E n \in 1..Len(reranked) :
                    reranked[n].content = candidates[c].content
              \/ \A n \in 1..Len(reranked) :
                    reranked[n].score >= model_scores[c]

----------------------------------------------------------------------------
(* Revocation classifier properties *)

Analyzed == vphase = "done"

\* the stem holds REVOGADA or REVOGADO, in any letter case
StemNamesRevocation ==
    LET folded == [i \in 1..Len(Stem(filepath)) |-> Lower(Stem(filepath)[i])]
    IN  \E i \in 1..Len(folded) :
            \E w \in { <<"r", "e", "v", "o", "g", "a", "d", "a">>,
                       <<"r", "e", "v", "o", "g", "a", "d", "o">> } :
                /\ i + 7 <= Len(folded)
                /\ SubSeq(folded, i, i + 7) = w

----------------------------------------------------------------------------
(* Sparse search properties *)

\* search_sparse has returned (no fusion weights: it was called on its own)
SparseSearched == rphase = "done" /\ bm25_scores # <<>> /\ weights = <<0, 0>>

PositiveChunks == {i \in 1..Len(Corpus) : bm25_scores[i] > 0}

\* the corpus chunk a result was built from (corpus contents are distinct)
ChunkOf(result) == CHOOSE i \in 1..Len(Corpus) : Corpus[i].content = result.content

ReturnedChunks == {ChunkOf(sparse_hits[n]) : n \in 1..Len(sparse_hits)}

\* C19: search_sparse(query, k) returns exactly the k highest-scoring corpus
\* chunks among those with BM25 score > 0 (all of them when there are fewer
\* than k), each once and with its own score, in descending score order; no
\* chunk scoring <= 0 is returned and no positive-scoring chunk is left out
\* in favour of a lower-scoring one
C19_TopKPositiveDescending ==
    SparseSearched =>
        /\ Len(sparse_hits) =
              IF Cardinality(PositiveChunks) < top_k
              THEN Cardinality(PositiveChunks) ELSE top_k
        /\ Cardinality(ReturnedChunks) = Len(sparse_hits)
        /\ ReturnedChunks \subseteq PositiveChunks
        /\ \A n \in 1..Len(sparse_hits) :
              /\ sparse_hits[n].score = bm25_scores[ChunkOf(sparse_hits[n])]
              /\ sparse_hits[n].score > 0
              /\ sparse_hits[n].source = "sparse"
        /\ \A n \in 1..(Len(sparse_hits) - 1) :
              sparse_hits[n].score >= sparse_hits[n + 1].score
        /\ \A i \in PositiveChunks \ ReturnedChunks :
              \A j \in ReturnedChunks : bm25_scores[j] >= bm25_scores[i]

\* a search that cut the positive chunks at k, with a higher score kept, a
\* lower positive score left out and a chunk scoring below 0 in the corpus
C19_Witness ==
    /\ SparseSearched
    /\ Len(sparse_hits) = top_k
    /\ Cardinality(PositiveChunks) > top_k
    /\ \E i \in PositiveChunks \ ReturnedChunks :
          \E j \in ReturnedChunks : bm25_scores[j] > bm25_scores[i]
    /\ \E i \in 1..Len(Corpus) : bm25_scores[i] < 0

----------------------------------------------------------------------------
(* Chat agent properties *)

SearchPathTaken == \E n \in 1..Len(calls) : calls[n] = "search_hybrid"

Reranked == \E n \in 1..Len(calls) : calls[n] = "rerank"

AnswerGenerated == \E n \in 1..Len(calls) : calls[n] = "llm_answer"

DecisionReturned ==
    /\ Len(calls) >= 1
    /\ Len(calls) = 1 \/ calls[2] # "exception"

\* the decision text is a JSON object
WellFormedDecision ==
    json_loads(CleanDecision(decision_text)).kind = "object"

\* C13: for every decision text that is not a well-formed decision (empty,
\* invalid JSON, or JSON that is no object), run_chat takes the search path
\* with the original user message as the query: no direct answer, no
\* failure of the request.
C13_MalformedDecisionDefaultsToSearch ==
    (DecisionReturned /\ ~WellFormedDecision) =>
        /\ needs_search
        /\ search_query = UserMessage
        /\ ~(chat_pc = "raised" /\ Len(calls) = 1)
        /\ chat_response.used_search \/ chat_response = NoResponse

\* the invocations of run_chat in the order the code makes them
StepOrder == <<"llm_decision", "search_hybrid", "rerank", "llm_answer">>

Invocations == SelectSeq(calls, LAMBDA c : c # "exception")

\* the members of the decision object, none when the text is no object
DecisionMembers == json_loads(CleanDecision(decision_text)).members

\* the decision asks for no search and carries no usable direct response
NoSearchNoResponse ==
    /\ DecisionReturned
    /\ "needs_search:false" \in DecisionMembers
    /\ "direct_response:r" \notin DecisionMembers

\* C30: run_chat's steps are the decision LLM call, then (search path only)
\* hybrid search, rerank and answer LLM call, in this order; a response with
\* used_search = FALSE is produced only for a decision with needs_search
\* false and a non-empty direct_response, after exactly one LLM call and
\* nothing else, with empty sources; a decision with needs_search false and
\* an empty or missing direct_response takes the search path with the user's
\* message as the query.
C30_StepOrderAndDirectResponse ==
    /\ Len(Invocations) <= Len(StepOrder)
    /\ \A n \in 1..Len(Invocations) : Invocations[n] = StepOrder[n]
    /\ \A n \in 1..Len(calls) : calls[n] = "exception" => n = Len(calls)
    /\ (chat_pc = "returned" /\ ~chat_response.used_search) =>
          /\ "needs_search:false" \in DecisionMembers
          /\ "direct_response:r" \in DecisionMembers
          /\ chat_response.answer = "r"
          /\ chat_response.sources = <<>>
          /\ calls = <<"llm_decision">>
    /\ NoSearchNoResponse =>
          /\ search_query = UserMessage
          /\ chat_pc \in {"search", "rerank", "answer"} \/ SearchPathTaken
          /\ chat_pc = "returned" => chat_response.used_search

\* a decision that wants no search, names a query of its own and has an
\* empty direct response was followed by search, rerank and answer
C30_Witness ==
    /\ NoSearchNoResponse
    /\ "search_query:q" \in DecisionMembers
    /\ "direct_response:empty" \in DecisionMembers
    /\ calls = StepOrder
    /\ chat_pc = "returned"

----------------------------------------------------------------------------
(* Embedding and dense query properties *)

\* C14: generate_embeddings never aborts because of failing embedding
\* requests: an exception never leaves the call, and when it has returned
\* there is one vector per text, the text's own or the placeholder.
C14_EmbeddingFailuresNeverAbort ==
    /\ epc # "raised"
    /\ epc = "returned" =>
          /\ Len(all_embeddings) = Len(texts)
          /\ \A n \in 1..Len(texts) :
                all_embeddings[n] \in {Embedding(_sanitize_text(texts[n])),
                                       Embedding(" ")}

\* the request for text n alone has failed
ItemFailed(n) ==
    \E r \in 1..Len(requests) :
        /\ ~requests[r].ok
        /\ requests[r].input = <<_sanitize_text(texts[n])>>

\* C28: when generate_embeddings returns there is exactly one vector per
\* input text, and at every step the vector at index n is the embedding of
\* text n, or the placeholder after the request for text n alone failed,
\* whatever batches and per-item retries succeed or fail: no vector is
\* duplicated, dropped or shifted
C28_OneVectorPerTextInOrder ==
    /\ Len(all_embeddings) <= Len(texts)
    /\ epc = "returned" => Len(all_embeddings) = Len(texts)
    /\ \A n \in 1..Len(all_embeddings) :
          \/ all_embeddings[n] = Embedding(_sanitize_text(texts[n]))
          \/ /\ all_embeddings[n] = Embedding(" ")
             /\ ItemFailed(n)

\* a return after a batch that succeeded and a batch that failed, with a
\* retried item that succeeded and one that got the placeholder
C28_Witness ==
    /\ epc = "returned"
    /\ Len(texts) > batch_size
    /\ \E r \in 1..Len(requests) :
          requests[r].ok /\ Len(requests[r].input) >= 2
    /\ \E r \in 1..Len(requests) :
          ~requests[r].ok /\ Len(requests[r].input) >= 2
    /\ \E n \in 1..Len(texts) :
          /\ ItemFailed(n)
          /\ all_embeddings[n] = Embedding(" ")
          /\ _sanitize_text(texts[n]) # " "
    /\ \E r \in 2..Len(requests) :
          /\ requests[r].ok
          /\ Len(requests[r].input) = 1
          /\ requests[r].input # <<" ">>

\* a request of the dense query path has failed
DensePathFailed == \E n \in 1..Len(requests) : ~requests[n].ok

\* C16: when the dense query path fails, search_dense and search_hybrid
\* raise: no request is sent after the failed one (no automatic retry) and
\* no result list, empty or degraded, is returned.
C16_DenseFailurePropagatesWithoutRetry ==
    DensePathFailed =>
        /\ qpc = "raised"
        /\ ~requests[Len(requests)].ok
        /\ \A n \in 1..(Len(requests) - 1) : requests[n].ok
        /\ query_results = NoResults

----------------------------------------------------------------------------
(* ETL batch properties *)

Elements(seq) == {seq[n] : n \in 1..Len(seq)}

\* C15: when the batch has ended, every document whose own conversion and
\* segmentation succeed was converted, chunked and saved, whatever failed
\* for the other documents; the batch is never aborted, and a document
\* whose conversion failed is in the collected errors.
C15_DocumentFailureDoesNotAbortBatch ==
    /\ etl_pc # "aborted"
    /\ etl_pc = "done" =>
          /\ \A d \in 1..Len(pdfs) :
                (pdfs[d].converts /\ pdfs[d].segments) =>
                    (d \in Elements(etl_results) /\ d \in Elements(saved))
          /\ \A d \in 1..Len(pdfs) :
                ~pdfs[d].converts => d \in Elements(etl_errors)

----------------------------------------------------------------------------
(* Hierarchy extractor properties *)

\* the offset is the start of a line (or the end of the document): every
\* heading line before it lies wholly before it
AtLineStart == up_to_pos = 0 \/ up_to_pos = Len(hier_text)
                 \/ hier_text[up_to_pos] = "NL"

\* the label position of a heading line: the line's first symbol, or the
\* first symbol after a "#" decoration; 0 when the line is no heading of
\* the type
LabelAt(labels, line) ==
    LET h == SkipSet(line, 1, {"H"})
        q == IF h > 1 THEN SkipSet(line, h, WS) ELSE 1
    IN  IF q <= Len(line) /\ line[q] \in labels THEN q ELSE 0

\* a heading line as the hierarchy shows it: its label, and the text after
\* its separator when it has one
HeadingOfLine(labels, line) ==
    LET q == LabelAt(labels, line)
        r == SkipSet(line, q + 1, WS)
        rest == IF r <= Len(line) /\ line[r] = "DASH"
                THEN strip(SubSeq(line, r + 1, Len(line))) ELSE <<>>
    IN  IF rest # <<>> THEN <<line[q], "SP", "DASH", "SP">> \o rest
        ELSE <<line[q]>>

\* the last heading line of a type before the offset, as a list of at most
\* one entry
LastHeadingBefore(labels) ==
    LET lines == SplitLines(Slice(hier_text, 0, up_to_pos))
        hs == {k \in 1..Len(lines) : LabelAt(labels, lines[k]) # 0}
    IN  IF hs = {} THEN <<>>
        ELSE <<HeadingOfLine(labels,
                 lines[CHOOSE k \in hs : \A j \in hs : j <= k])>>

\* C18: extract_hierarchy(text, pos) returns, in the order Title, Chapter,
\* Section, the last heading of each type before pos, each level chosen
\* independently of the others, omitting absent levels, and the empty list
\* when no heading precedes pos (stated for an offset at a line start, where
\* no heading straddles the offset)
C18_LastHeadingOfEachLevel ==
    (hphase = "done" /\ AtLineStart)
        => hierarchy = LastHeadingBefore(TitleSyms)
                         \o LastHeadingBefore(ChapterSyms)
                         \o LastHeadingBefore(SectionSyms)

----------------------------------------------------------------------------
(* Engine properties *)

\* the lexical index of engine e is built over the full chunk corpus
IndexBuilt(e) ==
    /\ engines[e].attrs = {"chunks", "corpus_tokens", "bm25"}
    /\ engines[e].chunks = Corpus
    /\ Len(engines[e].corpus_tokens) = Len(Corpus)
    /\ Len(engines[e].bm25) = Len(Corpus)

\* callers that hold an engine to search on, or were served by it
Holders == {c \in Callers : caller_pc[c] \in {"engine"} \cup SearchOperations}

ServedBeforeBuilt ==
    \E c \in Holders : ~IndexBuilt(caller_engine[c])

BuiltEngineModified ==
    \E e \in 1..Len(engines) : IndexBuilt(e) /\ engines'[e] # engines[e]

\* C21: on every engine the index build over the full corpus is complete
\* before a search on that engine is served, and once it is built no
\* operation modifies the index, the tokenised corpus or the chunk list
C21_BuildBeforeSearchThenImmutable ==
    /\ [](~ServedBeforeBuilt)
    /\ [][~BuiltEngineModified]_vars

\* both callers were served, by sparse and by hybrid search
C21_Witness ==
    /\ \E c \in Callers : caller_pc[c] = "search_sparse"
    /\ \E c \in Callers : caller_pc[c] = "search_hybrid"
    /\ \A c \in Holders : IndexBuilt(caller_engine[c])

\* C22: concurrent callers of get_search_engine that find no engine create
\* at most one HybridSearchEngine, and every caller receives that instance
C22_OneEngineForAllCallers ==
    /\ Len(engines) <= 1
    /\ \A c, d \in Holders : caller_engine[c] = caller_engine[d]

----------------------------------------------------------------------------
(* Persistence properties *)

\* the number of line breaks of the file
LineBreaks == Cardinality({i \in 1..Len(jsonl) : jsonl[i] \in {"NL", "CR"}})

\* C23: load_chunks of the file save_chunks wrote returns the same chunks
\* (content and every metadata field) in the same order, and the file holds
\* one record per chunk on one line each, also when strings hold line breaks
C23_SaveLoadRoundTrip ==
    /\ ppc \in {"saved", "loaded", "raised"} =>
          /\ LineBreaks = Len(given_chunks)
          /\ Len(FileLines(jsonl)) = Len(given_chunks)
          /\ \A i \in 1..Len(given_chunks) :
                load_record(FileLines(jsonl)[i]).ok
    /\ ppc # "raised"
    /\ ppc = "loaded" => loaded_chunks = given_chunks

\* two chunks were saved and loaded, one with a line break in its content
\* and one with a quote and a backslash in its strings
C23_Witness ==
    /\ ppc = "loaded"
    /\ Len(loaded_chunks) = 2
    /\ \E i \in 1..2 : \E k \in 1..Len(loaded_chunks[i].content) :
          loaded_chunks[i].content[k] = "NL"
    /\ \E i \in 1..2 : loaded_chunks[i].metadata.source = <<"BSL", "r">>

----------------------------------------------------------------------------
(* Id assignment properties *)

\* positions whose chunk has the id of an earlier chunk before the suffix
Repeated ==
    {n \in 1..Len(indexed_chunks) :
        \E m \in 1..(n - 1) :
            ChunkId(indexed_chunks[m]) = ChunkId(indexed_chunks[n])}

\* C29: the ids index_chunks passes to the vector store for one chunk list
\* are pairwise distinct, also when chunks share source, article_id and
\* chunk_index or become equal by the replacement of spaces and slashes, so
\* that the upsert keeps one record per chunk
C29_IdsPairwiseDistinct ==
    /\ iphase \in {"prepared", "done", "raised"} =>
          /\ Len(ids) = Len(indexed_chunks)
          /\ \A n, m \in 1..Len(ids) : n # m => ids[n] # ids[m]
    /\ iphase = "done" =>
          /\ Cardinality(collection) = Len(indexed_chunks)
          /\ \A n \in 1..Len(ids) :
                [id |-> ids[n], document |-> n] \in collection

\* a list with a chunk repeated twice and two chunks that differ only by a
\* space against an underscore, indexed
C29_Witness ==
    /\ iphase = "done"
    /\ Cardinality(Repeated) >= 2
    /\ \E n, m \in 1..Len(indexed_chunks) :
          /\ n # m
          /\ indexed_chunks[n].source # indexed_chunks[m].source
          /\ ChunkId(indexed_chunks[n]) = ChunkId(indexed_chunks[m])

====
